---- MODULE Spec2Model ----
(***************************************************************************)
(* Model of the manga-mapper Mapper (providers/mapper.js): the similarity  *)
(* scorer, the match selector findBestMatch, and the per-provider          *)
(* chapter-listing orchestrators behind the /<provider>/chapters/:id       *)
(* routes.  Strings are sequences of one-character strings; a similarity   *)
(* is an exact fraction <<numerator, denominator>>.                        *)
(***************************************************************************)
EXTENDS Integers, Sequences, FiniteSets, TLC

\* ------------------------------------------------------------------------
\* Bounds of the model
\* ------------------------------------------------------------------------
MaxResults == 2
MaxSynonyms == 2

\* ------------------------------------------------------------------------
\* Strings
\* ------------------------------------------------------------------------
\* null / undefined: a value that is no string of the model's alphabet
Null == << "null" >>

\* JavaScript truthiness of a string-or-null value: null, undefined and ""
\* are falsy
Falsy(s) == s = Null \/ s = << >>

\* String.prototype.toLowerCase on one character
LowerChar(c) ==
  CASE c = "A" -> "a"
    [] c = "B" -> "b"
    [] c = "C" -> "c"
    [] c = "D" -> "d"
    [] c = "X" -> "x"
    [] c = "Y" -> "y"
    [] OTHER -> c

\* String.prototype.toLowerCase
RECURSIVE toLowerCase(_)
toLowerCase(s) ==
  IF s = << >> THEN << >>
  ELSE << LowerChar(Head(s)) >> \o toLowerCase(Tail(s))

IsSpace(c) == c = " "

\* String.prototype.trim
RECURSIVE TrimLeft(_)
TrimLeft(s) ==
  IF s # << >> /\ IsSpace(Head(s)) THEN TrimLeft(Tail(s)) ELSE s

RECURSIVE TrimRight(_)
TrimRight(s) ==
  IF s # << >> /\ IsSpace(s[Len(s)]) THEN TrimRight(SubSeq(s, 1, Len(s) - 1)) ELSE s

trim(s) == TrimRight(TrimLeft(s))

\* title.replace(/\s+/g, '+'): every maximal run of whitespace becomes one '+'
RECURSIVE ReplaceSpaces(_)
ReplaceSpaces(s) ==
  IF s = << >> THEN << >>
  ELSE IF IsSpace(Head(s))
       THEN << "+" >> \o ReplaceSpaces(TrimLeft(s))
       ELSE << Head(s) >> \o ReplaceSpaces(Tail(s))

\* a faulty variant of Math.min that answers its second argument;
\* C25_EditDistanceIsLevenshtein rejects it
MinIsSecond(a, b) == b

Min2(a, b) == IF a <= b THEN a ELSE b

\* ------------------------------------------------------------------------
\* Similarity scorer
\* ------------------------------------------------------------------------
\* for (let j = 0; j <= s2.length; j++) { ... } of one row i >= 1 of
\* editDistance; st = [j, costs, lastValue]
RECURSIVE EditRow(_, _, _, _)
EditRow(s1, s2, i, st) ==
  IF st.j > Len(s2) THEN st
  ELSE IF st.j = 0 THEN EditRow(s1, s2, i, [st EXCEPT !.j = 1])
  ELSE
    LET j == st.j
        diag == st.costs[j - 1]
        newValue == IF s1[i] # s2[j]
                    THEN Min2(Min2(diag, st.lastValue), st.costs[j]) + 1
                    ELSE diag
    IN EditRow(s1, s2, i,
               [j |-> j + 1,
                costs |-> [st.costs EXCEPT ![j - 1] = st.lastValue],
                lastValue |-> newValue])

\* for (let i = 0; i <= s1.length; i++) { ... }; row 0 sets costs[j] = j
RECURSIVE EditRows(_, _, _, _)
EditRows(s1, s2, i, costs) ==
  IF i > Len(s1) THEN costs
  ELSE LET st == EditRow(s1, s2, i, [j |-> 0, costs |-> costs, lastValue |-> i])
       IN EditRows(s1, s2, i + 1, [st.costs EXCEPT ![Len(s2)] = st.lastValue])

\* a faulty variant of editDistance that folds the case of its first argument
\* only; C26_EditDistanceSymmetric rejects it
editDistanceFoldingFirst(a, b) ==
  LET s1 == toLowerCase(a)
  IN EditRows(s1, b, 1, [j \in 0..Len(b) |-> j])[Len(b)]

editDistance(a, b) ==
  LET s1 == toLowerCase(a)
      s2 == toLowerCase(b)
  IN EditRows(s1, s2, 1, [j \in 0..Len(s2) |-> j])[Len(s2)]

\* Fractions <<n, d>> with d > 0
Zero == << 0, 1 >>
One == << 1, 1 >>
FracGT(x, y) == x[1] * y[2] > y[1] * x[2]
FracGE(x, y) == x[1] * y[2] >= y[1] * x[2]
FracLT(x, y) == FracGT(y, x)
FracEQ(x, y) == x[1] * y[2] = y[1] * x[2]
FracMax(x, y) == IF FracGT(y, x) THEN y ELSE x

\* a faulty variant of stringSimilarity that answers 1 where an argument is
\* absent or empty; C24_EmptyOrAbsentScoresZero rejects it
stringSimilarityAbsentIsOne(s1, s2) ==
  IF Falsy(s1) \/ Falsy(s2) THEN << 1, 1 >>
  ELSE
    LET longer == IF Len(s1) >= Len(s2) THEN toLowerCase(s1) ELSE toLowerCase(s2)
        shorter == IF Len(s1) >= Len(s2) THEN toLowerCase(s2) ELSE toLowerCase(s1)
    IN << Len(longer) - editDistance(longer, shorter), Len(longer) >>

stringSimilarity(s1, s2) ==
  IF Falsy(s1) \/ Falsy(s2) THEN Zero
  ELSE
    LET longer == IF Len(s1) >= Len(s2) THEN toLowerCase(s1) ELSE toLowerCase(s2)
        shorter == IF Len(s1) >= Len(s2) THEN toLowerCase(s2) ELSE toLowerCase(s1)
        longerLength == Len(longer)
    IN IF longerLength = 0 THEN One
       ELSE << longerLength - editDistance(longer, shorter), longerLength >>

\* ------------------------------------------------------------------------
\* Match selector
\* ------------------------------------------------------------------------
\* let bestMatch = null
NoManga == [id |-> 0, title |-> Null, altTitles |-> << >>]

\* a faulty cutoff of 0.5 in place of 0.4; C12_BelowCutoffReturnsFirst rejects
\* it
CutoffHalf == << 1, 2 >>

\* a faulty main-title cutoff that accepts every scored candidate;
\* C2_AlternateOnlyAfterUnacceptedPrimary rejects it
CutoffMainTitleNone == << 0, 1 >>

\* acceptance cutoffs: 0.4 (current findBestMatch, MangaDex selection and the
\* MangaBuddy synonym loop), 0.3 (earlier findBestMatch), 0.5 (MangaBuddy
\* main title)
Cutoff == << 2, 5 >>
CutoffEarlier == << 3, 10 >>
CutoffMainTitle == << 1, 2 >>

\* for (const manga of results) { similarity = stringSimilarity(manga.title,
\* title); if (similarity > highestSimilarity) {...} }
RECURSIVE TitleLoop(_, _, _, _)
TitleLoop(results, title, k, st) ==
  IF k > Len(results) THEN st
  ELSE LET similarity == stringSimilarity(results[k].title, title)
       IN TitleLoop(results, title, k + 1,
                    IF FracGT(similarity, st.highestSimilarity)
                    THEN [bestMatch |-> results[k], highestSimilarity |-> similarity]
                    ELSE st)

\* a faulty variant of SynonymLoop in which an equal similarity also replaces
\* the best match; C11_FirstInScanOrder rejects it
RECURSIVE SynonymLoopTakingTies(_, _, _, _)
SynonymLoopTakingTies(manga, synonyms, s, st) ==
  IF s > Len(synonyms) THEN st
  ELSE LET similarity == stringSimilarity(manga.title, synonyms[s])
       IN SynonymLoopTakingTies(manga, synonyms, s + 1,
                                IF FracGE(similarity, st.highestSimilarity)
                                THEN [bestMatch |-> manga,
                                      highestSimilarity |-> similarity]
                                ELSE st)

\* for (const synonym of synonyms) { ... } for one manga
RECURSIVE SynonymLoop(_, _, _, _)
SynonymLoop(manga, synonyms, s, st) ==
  IF s > Len(synonyms) THEN st
  ELSE LET similarity == stringSimilarity(manga.title, synonyms[s])
       IN SynonymLoop(manga, synonyms, s + 1,
                      IF FracGT(similarity, st.highestSimilarity)
                      THEN [bestMatch |-> manga, highestSimilarity |-> similarity]
                      ELSE st)

\* a faulty variant of MangaSynonymLoop that never scores against the synonyms;
\* C10_ReturnsHighestScoring rejects it
MangaSynonymLoopSkipped(results, synonyms, k, st) == st

\* for (const manga of results) { for (const synonym of synonyms) {...} }
RECURSIVE MangaSynonymLoop(_, _, _, _)
MangaSynonymLoop(results, synonyms, k, st) ==
  IF k > Len(results) THEN st
  ELSE MangaSynonymLoop(results, synonyms, k + 1,
                        SynonymLoop(results[k], synonyms, 1, st))

\* the two scoring passes of findBestMatch
ScoringPasses(results, title, synonyms) ==
  LET afterTitle == TitleLoop(results, title, 1,
                              [bestMatch |-> NoManga, highestSimilarity |-> Zero])
  IN MangaSynonymLoop(results, synonyms, 1, afterTitle)

\* findBestMatch of the current Mapper: cutoff 0.4, throws on an empty list
findBestMatch(results, title, synonyms) ==
  LET st == ScoringPasses(results, title, synonyms)
  IN IF st.bestMatch = NoManga \/ FracLT(st.highestSimilarity, Cutoff)
     THEN IF Len(results) > 0
          THEN [threw |-> FALSE, error |-> << >>, bestMatch |-> results[1],
                highestSimilarity |-> st.highestSimilarity]
          ELSE [threw |-> TRUE,
                error |-> << "No manga results found to match with title: " >>
                            \o title,
                bestMatch |-> NoManga,
                highestSimilarity |-> st.highestSimilarity]
     ELSE [threw |-> FALSE, error |-> << >>, bestMatch |-> st.bestMatch,
           highestSimilarity |-> st.highestSimilarity]

\* findBestMatch of the earlier Mapper: cutoff 0.3; on an empty list
\* results[0] is undefined and reading bestMatch.title throws a TypeError
findBestMatchEarlier(results, title, synonyms) ==
  LET st == ScoringPasses(results, title, synonyms)
  IN IF st.bestMatch = NoManga \/ FracLT(st.highestSimilarity, CutoffEarlier)
     THEN IF Len(results) > 0
          THEN [threw |-> FALSE, error |-> << >>, bestMatch |-> results[1],
                highestSimilarity |-> st.highestSimilarity]
          ELSE [threw |-> TRUE,
                error |-> << "TypeError: Cannot read properties of undefined" >>,
                bestMatch |-> NoManga,
                highestSimilarity |-> st.highestSimilarity]
     ELSE [threw |-> FALSE, error |-> << >>, bestMatch |-> st.bestMatch,
           highestSimilarity |-> st.highestSimilarity]

\* MangaDex selection inside getChaptersByAnilistId: every candidate is
\* scored against romaji and english, by its title and by its altTitles
\* a faulty variant of AltTitleLoop that never scores the altTitles;
\* C9_ScoreOfEachSelector rejects it
AltTitleLoopSkipped(altTitles, titleToMatch, a, maxSimilarity) == maxSimilarity

RECURSIVE AltTitleLoop(_, _, _, _)
AltTitleLoop(altTitles, titleToMatch, a, maxSimilarity) ==
  IF a > Len(altTitles) THEN maxSimilarity
  ELSE AltTitleLoop(altTitles, titleToMatch, a + 1,
                    FracMax(maxSimilarity,
                            stringSimilarity(altTitles[a], titleToMatch)))

RECURSIVE TitlesToMatchLoop(_, _, _, _)
TitlesToMatchLoop(manga, titlesToMatch, t, maxSimilarity) ==
  IF t > Len(titlesToMatch) THEN maxSimilarity
  ELSE LET similarity == stringSimilarity(manga.title, titlesToMatch[t])
           afterTitle == FracMax(maxSimilarity, similarity)
       IN TitlesToMatchLoop(manga, titlesToMatch, t + 1,
                            AltTitleLoop(manga.altTitles, titlesToMatch[t], 1,
                                         afterTitle))

RECURSIVE MangadexLoop(_, _, _, _)
MangadexLoop(results, titlesToMatch, k, st) ==
  IF k > Len(results) THEN st
  ELSE LET maxSimilarity == TitlesToMatchLoop(results[k], titlesToMatch, 1, Zero)
       IN MangadexLoop(results, titlesToMatch, k + 1,
                       IF FracGT(maxSimilarity, st.highestSimilarity)
                       THEN [bestMatch |-> results[k],
                             highestSimilarity |-> maxSimilarity]
                       ELSE st)

\* results is non-empty here (the empty case threw before)
mangadexBestMatch(results, titlesToMatch) ==
  LET st == MangadexLoop(results, titlesToMatch, 1,
                         [bestMatch |-> NoManga, highestSimilarity |-> Zero])
  IN IF st.bestMatch = NoManga \/ FracLT(st.highestSimilarity, Cutoff)
     THEN [bestMatch |-> results[1], highestSimilarity |-> st.highestSimilarity]
     ELSE st

\* MangaBuddy main-title selection: title similarity only
mangaBuddyMainMatch(results, searchTitle) ==
  TitleLoop(results, searchTitle, 1,
            [bestMatch |-> NoManga, highestSimilarity |-> Zero])

\* MangaBuddy synonym selection: per candidate, similarity to the synonym,
\* then to the main title
RECURSIVE MangaBuddySynonymLoop(_, _, _, _, _)
MangaBuddySynonymLoop(results, synonym, searchTitle, k, st) ==
  IF k > Len(results) THEN st
  ELSE LET similarityToSynonym == stringSimilarity(results[k].title, synonym)
           st1 == IF FracGT(similarityToSynonym, st.highestSimilarity)
                  THEN [bestMatch |-> results[k],
                        highestSimilarity |-> similarityToSynonym]
                  ELSE st
           similarityToMain == stringSimilarity(results[k].title, searchTitle)
           st2 == IF FracGT(similarityToMain, st1.highestSimilarity)
                  THEN [bestMatch |-> results[k],
                        highestSimilarity |-> similarityToMain]
                  ELSE st1
       IN MangaBuddySynonymLoop(results, synonym, searchTitle, k + 1, st2)

mangaBuddySynonymMatch(results, synonym, searchTitle) ==
  MangaBuddySynonymLoop(results, synonym, searchTitle, 1,
                        [bestMatch |-> NoManga, highestSimilarity |-> Zero])

\* ------------------------------------------------------------------------
\* Environment: the catalog (AniList) and the target sites
\* ------------------------------------------------------------------------
Providers == {"mangadex", "asurascans", "mangapark", "mangabuddy", "mangakakalot"}

\* the providers whose orchestrator calls a search<Provider> helper
HelperProviders == {"asurascans", "mangapark", "mangakakalot"}

\* the site name as the Mapper's messages and the routes spell it
SiteName(p) ==
  CASE p = "mangadex" -> "Mangadex"
    [] p = "asurascans" -> "AsuraScans"
    [] p = "mangapark" -> "MangaPark"
    [] p = "mangabuddy" -> "MangaBuddy"
    [] p = "mangakakalot" -> "MangaKakalot"

\* the prefix of the orchestrator's final catch
MappingErrorPrefix(p) ==
  CASE p = "mangadex" -> "Mapping error: "
    [] p = "asurascans" -> "AsuraScans mapping error: "
    [] p = "mangapark" -> "MangaPark mapping error: "
    [] p = "mangabuddy" -> "MangaBuddy mapping error: "
    [] p = "mangakakalot" -> "MangaKakalot mapping error: "

\* the :anilistId route parameter; "x" is not numeric
AnilistIds == {"1", "x"}

\* the titles AniList holds: english "a b", romaji "ac"; the synonym "AC" is
\* the romaji title in another case
TitleEnglish == << "a", " ", "b" >>
TitleRomaji == << "a", "c" >>
SynonymPool == { << "x", "y" >>, << "A", "C" >> }

SeqsUpTo(S, n) == UNION { [1..k -> S] : k \in 0..n }

\* what AniList may hold for an id: english may be missing, romaji is set
Medias ==
  { [title |-> [english |-> e, romaji |-> TitleRomaji, native |-> Null],
     synonyms |-> syn] :
      e \in {Null, TitleEnglish}, syn \in SeqsUpTo(SynonymPool, MaxSynonyms) }

\* the listings a target site holds
Listings ==
  { [id |-> 1, title |-> << "A", " ", "b" >>, altTitles |-> << >>],
    [id |-> 2, title |-> << "x", "y", "z" >>,
     altTitles |-> << << "a", " ", "b" >> >>],
    [id |-> 3, title |-> << "p", "q" >>, altTitles |-> << >>] }

\* a search answers with a list of distinct listings
ResultLists ==
  { r \in SeqsUpTo(Listings, MaxResults) :
      \A i, j \in 1..Len(r) : i # j => r[i] # r[j] }

\* mangaInfo.chapters of a listing: a list, an empty list, or undefined
SiteChapters(id) ==
  CASE id = 1 -> << "chapter-2", "chapter-1" >>
    [] id = 2 -> Null
    [] OTHER -> << >>

\* the message of an error thrown by a provider adapter
SearchFailure == << "search request failed" >>
InfoFailure == << "info request failed" >>

\* ------------------------------------------------------------------------
\* Error messages: sequences of text pieces
\* ------------------------------------------------------------------------
\* `${prefix}${error.message}`
Wrap(prefix, message) == << prefix >> \o message

\* String.prototype.includes on messages
Includes(message, part) ==
  \E k \in 0..(Len(message) - Len(part)) :
    SubSeq(message, k + 1, k + Len(part)) = part

\* AnilistProvider.getInfo: the API answers with a media, with errors, with no
\* media, or the request itself fails; every failure is re-thrown wrapped
AnilistAnswers == {"media", "errors", "nomedia", "network"}

AnilistFailure(kind) ==
  CASE kind = "errors" -> << "Anilist API error: ", "Not Found." >>
    [] kind = "nomedia" -> << "No media found with ID " >>
    [] OTHER -> << "request to graphql.anilist.co failed" >>

getInfoError(kind) == Wrap("Failed to fetch anime info: ", AnilistFailure(kind))

\* animeInfo.title.english || animeInfo.title.romaji || animeInfo.title.native
\* (|| "Manga" for MangaDex)
SearchTitleOf(p, info) ==
  IF ~Falsy(info.title.english) THEN info.title.english
  ELSE IF ~Falsy(info.title.romaji) THEN info.title.romaji
  ELSE IF p = "mangadex" THEN << "M", "a", "n", "g", "a" >>
  ELSE info.title.native

\* animeInfo.synonyms.filter(synonym => synonym && synonym.trim() !== '' &&
\*   synonym.toLowerCase() !== searchTitle.toLowerCase())
SynonymKept(synonym, searchTitle) ==
  /\ ~Falsy(synonym)
  /\ trim(synonym) # << >>
  /\ toLowerCase(synonym) # toLowerCase(searchTitle)

FilterSynonyms(raw, searchTitle) ==
  SelectSeq(raw, LAMBDA synonym : SynonymKept(synonym, searchTitle))

\* the synonyms an orchestrator works with; MangaDex reads none
SynonymsOf(p, info) ==
  IF p = "mangadex" THEN << >>
  ELSE FilterSynonyms(info.synonyms, SearchTitleOf(p, info))

\* [animeInfo.title.romaji, animeInfo.title.english].filter(Boolean)
TitlesToMatch(info) ==
  SelectSeq(<< info.title.romaji, info.title.english >>, LAMBDA t : ~Falsy(t))

\* the query sent to the site: MangaBuddy replaces whitespace by '+'
QueryOf(p, title) == IF p = "mangabuddy" THEN ReplaceSpaces(title) ELSE title

\* what a site search may answer: it throws, or it returns a result list
SearchAnswers ==
  { [threw |-> TRUE, results |-> << >>] }
    \cup { [threw |-> FALSE, results |-> r] : r \in ResultLists }

\* searchResults && searchResults.results && searchResults.results.length > 0
HasResults(answer) == ~answer.threw /\ Len(answer.results) > 0

\* the message of the error a search threw
SearchError(answer) == IF answer.threw THEN SearchFailure ELSE << >>

\* a faulty variant of DetailId that always fetches listing 1;
\* C8_SuccessCarriesChosenListing rejects it
DetailIdFixed(manga) == 1

\* the argument of the detail fetch: get<Site>Info(bestMatch.id)
DetailId(manga) == manga.id

\* throw new Error(`No matching manga found on <Site> for title: ${title}`)
NoMatchingMessage(p, title) ==
  << "No matching manga found on ", SiteName(p), " for title: " >> \o title

\* the catch of search<Site>: `Failed to search manga on <Site>: ${message}`
SearchHelperPrefix(p) ==
  CASE p = "asurascans" -> "Failed to search manga on AsuraScans: "
    [] p = "mangapark" -> "Failed to search manga on MangaPark: "
    [] p = "mangabuddy" -> "Failed to search manga on MangaBuddy: "
    [] p = "mangakakalot" -> "Failed to search manga on MangaKakalot: "

\* the catch of get<Site>Info: `Failed to get manga info from <Site>: ...`
InfoHelperPrefix(p) ==
  CASE p = "asurascans" -> "Failed to get manga info from AsuraScans: "
    [] p = "mangapark" -> "Failed to get manga info from MangaPark: "
    [] p = "mangabuddy" -> "Failed to get manga info from MangaBuddy: "
    [] p = "mangakakalot" -> "Failed to get manga info from MangaKakalot: "

\* throw new Error(`Could not find manga on MangaBuddy with title: ... or any
\* synonyms`)
CouldNotFindMessage(title) ==
  << "Could not find manga on ", "MangaBuddy", " with title: " >> \o title
    \o << " or any synonyms" >>

\* ------------------------------------------------------------------------
\* State of one chapter-listing request
\* ------------------------------------------------------------------------
VARIABLES
  provider,    \* the route's provider
  anilistId,   \* req.params.anilistId
  pc,          \* the await the request is at
  animeInfo,   \* what anilist.getInfo returned
  idx,         \* position in the synonym loop (1-based)
  results,     \* the result list of the latest search
  bestMatch,   \* the listing chosen for the detail fetch
  stage,       \* MangaBuddy: where the detail fetch was reached from
  calls,       \* the adapter calls issued so far, in order
  outcome,     \* what the orchestrator returned or threw
  response,    \* what the route sent
  matchRun,    \* one application of a match selector: its inputs and result
  pageRun,     \* one adapter call on a site's pages: its inputs and result
  scoreRun,    \* one pair of strings given to the scorer, and what it returned
  fields,      \* the fields of the Mapper, of its adapters and of the routes' adapters
  site,        \* what the sites answer: anything, or one fixed answer per call
  parked       \* a second request, suspended at an await, and the comparison made

vars == << provider, anilistId, pc, animeInfo, idx, results, bestMatch, stage,
           calls, outcome, response, matchRun, pageRun, scoreRun, fields, site,
           parked >>

NoError == << >>

NoInfo == [title |-> [english |-> Null, romaji |-> Null, native |-> Null],
           synonyms |-> << >>]
NoOutcome == [kind |-> "none"]
NoResponse == [status |-> 0, error |-> "none"]

searchTitle == SearchTitleOf(provider, animeInfo)
synonyms == SynonymsOf(provider, animeInfo)

\* one adapter call: found says a search returned at least one result
Call(op, kind, arg, error, found) ==
  [op |-> op, kind |-> kind, arg |-> arg, threw |-> error # NoError,
   error |-> error, found |-> found]

\* no selector application is under way
NoRun == [selector |-> "none"]

\* no adapter call on a site's pages is under way
NoPageRun == [op |-> "none"]
NoScoreRun == [s1 |-> << >>, s2 |-> << >>, given |-> FALSE]

\* The fields the constructors set: the base URL and the request headers of
\* the scraping adapters and of the AniList client, the library client of
\* the MangaDex and AsuraScans adapters, and the Mapper's six adapters.
Constructed ==
  [mangapark |-> [baseUrl |-> [host |-> "mangapark", path |-> << >>, query |-> FALSE],
                  userAgent |-> "Mozilla/5.0"],
   mangabuddy |-> [baseUrl |-> [host |-> "mangabuddy", path |-> << >>, query |-> FALSE],
                   userAgent |-> "Mozilla/5.0"],
   mangakakalot |-> [baseUrl |-> [host |-> "mangakakalot", path |-> << >>,
                                  query |-> FALSE],
                     headers |-> "Mozilla/5.0"],
   anilist |-> [baseUrl |-> [host |-> "anilist", path |-> << >>, query |-> FALSE]],
   mangadex |-> [client |-> "MangaDex"],
   asurascans |-> [client |-> "AsuraScans"],
   mapper |-> [adapters |-> {"anilist", "mangadex", "asurascans", "mangapark",
                             "mangabuddy", "mangakakalot"}]]

\* sites that may answer a call with anything
AnySite == [kind |-> "any"]

\* no second request
NoParked == [phase |-> "none"]

Init ==
  /\ provider \in Providers
  /\ anilistId \in AnilistIds
  /\ pc = "route"
  /\ animeInfo = NoInfo
  /\ idx = 0
  /\ results = << >>
  /\ bestMatch = NoManga
  /\ stage = "none"
  /\ calls = << >>
  /\ outcome = NoOutcome
  /\ response = NoResponse
  /\ matchRun = NoRun
  /\ pageRun = NoPageRun
  /\ scoreRun = NoScoreRun
  /\ fields = Constructed
  /\ site = AnySite
  /\ parked = NoParked

\* a faulty variant of Fail that drops the message of the caught error;
\* C5_IdentityNotFoundWithoutSearch rejects it
FailWithoutCause(message) ==
  /\ outcome' = [kind |-> "failure", message |-> << MappingErrorPrefix(provider) >>]
  /\ pc' = "respond"

\* the orchestrator's final catch: throw new Error(`<Site> mapping error:
\* ${error.message}`)
Fail(message) ==
  /\ outcome' = [kind |-> "failure",
                 message |-> Wrap(MappingErrorPrefix(provider), message)]
  /\ pc' = "respond"

\* the object an orchestrator returns
Succeed(manga, chapters) ==
  /\ outcome' = [kind |-> "success",
                 anilist |-> [id |-> anilistId,
                              title |-> IF ~Falsy(animeInfo.title.english)
                                        THEN animeInfo.title.english
                                        ELSE animeInfo.title.romaji],
                 site |-> [id |-> manga.id,
                           title |-> manga.title,
                           chapters |-> IF chapters = Null THEN << >> ELSE chapters]]
  /\ pc' = "respond"

\* ------------------------------------------------------------------------
\* What the sites answer
\* ------------------------------------------------------------------------
\* A fixed site answers a call the same way whenever it is made: AniList
\* with one answer and one media for every id, a search with the shelf for
\* the queries it knows and with nothing for the others, a detail fetch with
\* a throw for the listings that are down.
FixedSite(catalog, media, hits, shelf, down) ==
  [kind |-> "fixed", catalog |-> catalog, media |-> media, hits |-> hits,
   shelf |-> shelf, down |-> down]

\* the answers of S the sites may give to a call
Offered(op, arg, S) ==
  IF site.kind = "any" THEN S
  ELSE CASE op = "getInfo" -> S \cap {site.catalog}
         [] op = "media" -> S \cap {site.media}
         [] op = "search" ->
              S \cap {[threw |-> FALSE,
                       results |-> IF arg \in site.hits THEN site.shelf ELSE << >>]}
         [] OTHER -> S \cap {arg \in site.down}

\* ------------------------------------------------------------------------
\* The route and the catalog lookup
\* ------------------------------------------------------------------------
\* !anilistId || isNaN(parseInt(anilistId))
InvalidId(id) == id = "x"

\* app.get('/<provider>/chapters/:anilistId'): validation of the parameter
HandleRequest ==
  /\ pc = "route"
  /\ IF InvalidId(anilistId)
     THEN /\ response' = [status |-> 400, error |-> "Invalid Anilist ID"]
          /\ pc' = "done"
     ELSE /\ pc' = "resolve"
          /\ UNCHANGED response
  /\ UNCHANGED << fields, site, parked, scoreRun, pageRun, matchRun, provider, anilistId, animeInfo, idx, results, bestMatch, stage,
                  calls, outcome >>

\* Step 1: const animeInfo = await this.anilist.getInfo(anilistId)
ResolveIdentity ==
  /\ pc = "resolve"
  /\ \E answer \in Offered("getInfo", anilistId, AnilistAnswers) :
       IF answer = "media"
       THEN \E media \in Offered("media", anilistId, Medias) :
              /\ animeInfo' = media
              /\ calls' = Append(calls, Call("getInfo", "catalog", anilistId, NoError, FALSE))
              /\ pc' = "searchPrimary"
              /\ UNCHANGED outcome
       ELSE /\ calls' = Append(calls, Call("getInfo", "catalog", anilistId, getInfoError(answer),
                                 FALSE))
            /\ Fail(getInfoError(answer))
            /\ UNCHANGED animeInfo
  /\ UNCHANGED << fields, site, parked, scoreRun, pageRun, matchRun, provider, anilistId, idx, results, bestMatch, stage, response >>

\* ------------------------------------------------------------------------
\* MangaDex: getChaptersByAnilistId
\* ------------------------------------------------------------------------
SearchPrimaryMangadex ==
  /\ pc = "searchPrimary"
  /\ provider = "mangadex"
  /\ \E answer \in Offered("search", searchTitle, SearchAnswers) :
       /\ calls' = Append(calls, Call("search", "primary", searchTitle,
                                      SearchError(answer), HasResults(answer)))
       /\ results' = answer.results
       /\ IF answer.threw
          THEN Fail(SearchFailure) /\ UNCHANGED bestMatch
          ELSE IF ~HasResults(answer)
          THEN Fail(NoMatchingMessage(provider, searchTitle)) /\ UNCHANGED bestMatch
          ELSE /\ bestMatch' =
                    mangadexBestMatch(answer.results, TitlesToMatch(animeInfo)).bestMatch
               /\ pc' = "fetchDetails"
               /\ UNCHANGED outcome
  /\ UNCHANGED << fields, site, parked, scoreRun, pageRun, matchRun, provider, anilistId, animeInfo, idx, stage, response >>

\* ------------------------------------------------------------------------
\* AsuraScans, MangaPark, MangaKakalot: search<Site>(title, synonyms)
\* ------------------------------------------------------------------------
\* MangaKakalot searches a synonym only if (synonym && synonym.trim())
Searchable(p, synonym) ==
  p # "mangakakalot" \/ (~Falsy(synonym) /\ trim(synonym) # << >>)

\* a faulty variant of NextSearchable that skips a synonym;
\* C1_AlternatesInOrderUntilAccepted rejects it
NextSearchableSkipping(p, syns, k) == k + 1

\* the first position >= k of the synonym loop at which a search is issued
RECURSIVE NextSearchable(_, _, _)
NextSearchable(p, syns, k) ==
  IF k > Len(syns) \/ Searchable(p, syns[k]) THEN k
  ELSE NextSearchable(p, syns, k + 1)

\* return this.findBestMatch(results, title, synonyms), inside the try of
\* search<Site>
SelectMatch(found) ==
  LET selected == findBestMatch(found, searchTitle, synonyms)
  IN IF selected.threw
     THEN /\ Fail(Wrap(SearchHelperPrefix(provider), selected.error))
          /\ UNCHANGED bestMatch
     ELSE /\ bestMatch' = selected.bestMatch
          /\ pc' = "fetchDetails"
          /\ UNCHANGED outcome

\* the synonym loop moves on: the next synonym, or the throw after the loop
NextSynonymOrFail(k) ==
  LET next == NextSearchable(provider, synonyms, k)
  IN IF next <= Len(synonyms)
     THEN /\ idx' = next
          /\ pc' = "searchAlternate"
          /\ UNCHANGED outcome
     ELSE /\ Fail(Wrap(SearchHelperPrefix(provider),
                       NoMatchingMessage(provider, searchTitle)))
          /\ UNCHANGED idx

\* const searchResults = await this.<site>.search(title)
SearchPrimary ==
  /\ pc = "searchPrimary"
  /\ provider \in HelperProviders
  /\ \E answer \in Offered("search", searchTitle, SearchAnswers) :
       /\ calls' = Append(calls, Call("search", "primary", searchTitle,
                                      SearchError(answer), HasResults(answer)))
       /\ results' = answer.results
       /\ IF answer.threw
          THEN /\ Fail(Wrap(SearchHelperPrefix(provider), SearchFailure))
               /\ UNCHANGED << idx, bestMatch >>
          ELSE IF ~HasResults(answer)
          THEN NextSynonymOrFail(1) /\ UNCHANGED bestMatch
          ELSE SelectMatch(answer.results) /\ UNCHANGED idx
  /\ UNCHANGED << fields, site, parked, scoreRun, pageRun, matchRun, provider, anilistId, animeInfo, stage, response >>

\* const synonymResults = await this.<site>.search(synonym)
SearchAlternate ==
  /\ pc = "searchAlternate"
  /\ provider \in HelperProviders
  /\ \E answer \in Offered("search", synonyms[idx], SearchAnswers) :
       /\ calls' = Append(calls, Call("search", "alternate", synonyms[idx],
                                      SearchError(answer), HasResults(answer)))
       /\ results' = answer.results
       /\ IF answer.threw
          THEN /\ Fail(Wrap(SearchHelperPrefix(provider), SearchFailure))
               /\ UNCHANGED << idx, bestMatch >>
          ELSE IF ~HasResults(answer)
          THEN NextSynonymOrFail(idx + 1) /\ UNCHANGED bestMatch
          ELSE SelectMatch(answer.results) /\ UNCHANGED idx
  /\ UNCHANGED << fields, site, parked, scoreRun, pageRun, matchRun, provider, anilistId, animeInfo, stage, response >>

\* Step 3: await this.get<Site>Info(bestMatch.id), then the return
FetchDetails ==
  /\ pc = "fetchDetails"
  /\ provider # "mangabuddy"
  /\ \E threw \in Offered("getMangaInfo", DetailId(bestMatch), BOOLEAN) :
       /\ calls' = Append(calls, Call("getMangaInfo", "details", DetailId(bestMatch),
                                 IF threw THEN InfoFailure ELSE NoError, FALSE))
       /\ IF threw
          THEN Fail(IF provider = "mangadex" THEN InfoFailure
                    ELSE Wrap(InfoHelperPrefix(provider), InfoFailure))
          ELSE Succeed(bestMatch, SiteChapters(DetailId(bestMatch)))
  /\ UNCHANGED << fields, site, parked, scoreRun, pageRun, matchRun, provider, anilistId, animeInfo, idx, results, bestMatch, stage,
                  response >>

\* ------------------------------------------------------------------------
\* MangaBuddy: getChaptersByAnilistIdFromMangaBuddy
\* ------------------------------------------------------------------------
\* throw new Error(`Could not find manga on MangaBuddy ...`), after the
\* fallback
FailCouldNotFind == Fail(CouldNotFindMessage(searchTitle))

\* the synonym loop at position k: search synonym k, or leave the loop for the
\* fallback search
SynonymOrFallback(k) ==
  IF k <= Len(synonyms)
  THEN idx' = k /\ pc' = "searchAlternate"
  ELSE pc' = "fallbackSearch" /\ UNCHANGED idx

\* the block-scoped searchResults / synonymResults, bestMatch /
\* bestSynonymMatch of an attempt go out of scope when its try is left
LeaveAttempt ==
  /\ results' = << >>
  /\ bestMatch' = NoManga
  /\ stage' = "none"

\* await this.mangabuddy.search(formattedSearchTitle) in the inner try; its
\* catch (error) enters the synonym loop
SearchPrimaryMangaBuddy ==
  /\ pc = "searchPrimary"
  /\ provider = "mangabuddy"
  /\ \E answer \in Offered("search", QueryOf(provider, searchTitle), SearchAnswers) :
       LET main == mangaBuddyMainMatch(answer.results, searchTitle)
       IN /\ calls' = Append(calls, Call("search", "primary",
                                         QueryOf(provider, searchTitle),
                                         SearchError(answer), HasResults(answer)))
          /\ IF /\ HasResults(answer)
                /\ main.bestMatch # NoManga
                /\ FracGE(main.highestSimilarity, CutoffMainTitle)
             THEN /\ results' = answer.results
                  /\ bestMatch' = main.bestMatch
                  /\ stage' = "primary"
                  /\ pc' = "fetchDetails"
                  /\ UNCHANGED idx
             ELSE /\ SynonymOrFallback(1)
                  /\ results' = << >>
                  /\ UNCHANGED << bestMatch, stage >>
  /\ UNCHANGED << fields, site, parked, scoreRun, pageRun, matchRun, provider, anilistId, animeInfo, outcome, response >>

\* await this.mangabuddy.search(formattedSynonym) in the loop's try; its
\* catch (synonymError) continues with the next synonym
SearchAlternateMangaBuddy ==
  /\ pc = "searchAlternate"
  /\ provider = "mangabuddy"
  /\ \E answer \in Offered("search", QueryOf(provider, synonyms[idx]), SearchAnswers) :
       LET best == mangaBuddySynonymMatch(answer.results, synonyms[idx], searchTitle)
       IN /\ calls' = Append(calls, Call("search", "alternate",
                                         QueryOf(provider, synonyms[idx]),
                                         SearchError(answer), HasResults(answer)))
          /\ IF /\ HasResults(answer)
                /\ best.bestMatch # NoManga
                /\ FracGE(best.highestSimilarity, Cutoff)
             THEN /\ results' = answer.results
                  /\ bestMatch' = best.bestMatch
                  /\ stage' = "alternate"
                  /\ pc' = "fetchDetails"
                  /\ UNCHANGED idx
             ELSE /\ SynonymOrFallback(idx + 1)
                  /\ results' = << >>
                  /\ UNCHANGED << bestMatch, stage >>
  /\ UNCHANGED << fields, site, parked, scoreRun, pageRun, matchRun, provider, anilistId, animeInfo, outcome, response >>

\* const fallbackResults = await this.mangabuddy.search(formattedSearchTitle);
\* its catch (fallbackError) only logs
FallbackSearchMangaBuddy ==
  /\ pc = "fallbackSearch"
  /\ provider = "mangabuddy"
  /\ \E answer \in Offered("search", QueryOf(provider, searchTitle), SearchAnswers) :
       /\ calls' = Append(calls, Call("search", "fallback",
                                      QueryOf(provider, searchTitle),
                                      SearchError(answer), HasResults(answer)))
       /\ results' = answer.results
       /\ IF HasResults(answer)
          THEN /\ bestMatch' = answer.results[1]
               /\ stage' = "fallback"
               /\ pc' = "fetchDetails"
               /\ UNCHANGED outcome
          ELSE /\ FailCouldNotFind
               /\ UNCHANGED << bestMatch, stage >>
  /\ UNCHANGED << fields, site, parked, scoreRun, pageRun, matchRun, provider, anilistId, animeInfo, idx, response >>

\* await this.getMangaBuddyInfo(<match>.id) at its three call sites; a throw
\* is caught by the try the call site is in
FetchDetailsMangaBuddy ==
  /\ pc = "fetchDetails"
  /\ provider = "mangabuddy"
  /\ \E threw \in Offered("getMangaInfo", DetailId(bestMatch), BOOLEAN) :
       /\ calls' = Append(calls, Call("getMangaInfo", "details", DetailId(bestMatch),
                                 IF threw THEN InfoFailure ELSE NoError, FALSE))
       /\ IF ~threw
          THEN /\ Succeed(bestMatch, SiteChapters(DetailId(bestMatch)))
               /\ UNCHANGED << idx, results, bestMatch, stage >>
          ELSE IF stage = "primary"
          THEN /\ SynonymOrFallback(1)
               /\ LeaveAttempt
               /\ UNCHANGED outcome
          ELSE IF stage = "alternate"
          THEN /\ SynonymOrFallback(idx + 1)
               /\ LeaveAttempt
               /\ UNCHANGED outcome
          ELSE /\ FailCouldNotFind
               /\ UNCHANGED << idx, results, bestMatch, stage >>
  /\ UNCHANGED << fields, site, parked, scoreRun, pageRun, matchRun, provider, anilistId, animeInfo, response >>

\* ------------------------------------------------------------------------
\* The route's answer
\* ------------------------------------------------------------------------
\* res.json(result), or the route's catch: 404 for an unknown Anilist ID, 404
\* for 'No matching manga found on <Site>', 500 otherwise
RouteAnswer(p, result) ==
  IF result.kind = "success" THEN [status |-> 200, error |-> "none"]
  ELSE IF \/ Includes(result.message, << "No media found with ID " >>)
          \/ Includes(result.message, << "Anilist API error: " >>)
  THEN [status |-> 404, error |-> "Anilist ID not found"]
  ELSE IF Includes(result.message, << "No matching manga found on ", SiteName(p) >>)
  THEN [status |-> 404, error |-> "Manga not found"]
  ELSE [status |-> 500, error |-> "Server error"]

Respond ==
  /\ pc = "respond"
  /\ response' = RouteAnswer(provider, outcome)
  /\ pc' = "done"
  /\ UNCHANGED << fields, site, parked, scoreRun, pageRun, matchRun, provider, anilistId, animeInfo, idx, results, bestMatch, stage,
                  calls, outcome >>

Next ==
  \/ HandleRequest
  \/ ResolveIdentity
  \/ SearchPrimaryMangadex
  \/ SearchPrimary
  \/ SearchAlternate
  \/ FetchDetails
  \/ SearchPrimaryMangaBuddy
  \/ SearchAlternateMangaBuddy
  \/ FallbackSearchMangaBuddy
  \/ FetchDetailsMangaBuddy
  \/ Respond

Spec == Init /\ [][Next]_vars

\* ------------------------------------------------------------------------
\* Two requests on the same Mapper and adapters
\* ------------------------------------------------------------------------
\* the variables of one handler invocation: its parameters and the locals
\* of the orchestrator it awaits
Locals ==
  [provider |-> provider, anilistId |-> anilistId, pc |-> pc,
   animeInfo |-> animeInfo, idx |-> idx, results |-> results,
   bestMatch |-> bestMatch, stage |-> stage, calls |-> calls,
   outcome |-> outcome, response |-> response]

\* a request that has not run yet
Started(p, id) ==
  [provider |-> p, anilistId |-> id, pc |-> "route", animeInfo |-> NoInfo,
   idx |-> 0, results |-> << >>, bestMatch |-> NoManga, stage |-> "none",
   calls |-> << >>, outcome |-> NoOutcome, response |-> NoResponse]

InFlight(request) == request.pc \notin {"route", "done"}

\* the fixed sites the two requests meet
PairMedias ==
  { [title |-> [english |-> TitleEnglish, romaji |-> TitleRomaji, native |-> Null],
     synonyms |-> << << "x", "y" >> >>],
    [title |-> [english |-> Null, romaji |-> TitleRomaji, native |-> Null],
     synonyms |-> << >>] }
PairHits ==
  { {}, {TitleEnglish}, {<< "x", "y" >>}, {<< "a", "+", "b" >>, TitleRomaji} }
PairShelves ==
  { << CHOOSE l \in Listings : l.id = 1 >>,
    << CHOOSE l \in Listings : l.id = 3, CHOOSE l \in Listings : l.id = 1 >> }
PairDown == { {}, {1} }
PairSites ==
  { FixedSite("media", media, hits, shelf, down) :
      media \in PairMedias, hits \in PairHits, shelf \in PairShelves,
      down \in PairDown }
  \cup { FixedSite("nomedia", media, {}, << >>, {}) : media \in PairMedias }

\* A second request waits at an await while the first runs (phase "pair");
\* when both have ended, one of them is run again, alone, against the same
\* sites (phase "replay") and `locals` keeps how it ended beside the other.
Parked(phase, request, overlapped) ==
  [phase |-> phase, locals |-> request, overlapped |-> overlapped]

InitPair ==
  /\ site \in PairSites
  /\ fields = Constructed
  /\ provider \in Providers
  /\ anilistId \in AnilistIds
  /\ pc = "route"
  /\ animeInfo = NoInfo
  /\ idx = 0
  /\ results = << >>
  /\ bestMatch = NoManga
  /\ stage = "none"
  /\ calls = << >>
  /\ outcome = NoOutcome
  /\ response = NoResponse
  /\ matchRun = NoRun
  /\ pageRun = NoPageRun
  /\ scoreRun = NoScoreRun
  /\ parked \in { Parked("pair", Started(p, id), FALSE) :
                     p \in Providers, id \in AnilistIds }

\* a faulty variant of resumedBestMatch that keeps the chosen listing in a
\* field of the Mapper, where the other request overwrites it;
\* C27_ConcurrentAsAlone rejects it
resumedBestMatchShared(request) == bestMatch

\* `let bestMatch` is a local of the invocation: a resumed request finds the
\* listing it chose itself
resumedBestMatch(request) == request.bestMatch

\* the event loop continues a request with the locals it was suspended with
Resume(request, match) ==
  /\ provider' = request.provider
  /\ anilistId' = request.anilistId
  /\ pc' = request.pc
  /\ animeInfo' = request.animeInfo
  /\ idx' = request.idx
  /\ results' = request.results
  /\ bestMatch' = match
  /\ stage' = request.stage
  /\ calls' = request.calls
  /\ outcome' = request.outcome
  /\ response' = request.response

\* at an await the running request is suspended and the other continues
Yield ==
  /\ parked.phase = "pair"
  /\ parked.locals.pc # "done"
  /\ Resume(parked.locals, resumedBestMatch(parked.locals))
  /\ parked' = Parked("pair", Locals,
                      parked.overlapped \/ (InFlight(Locals) /\ InFlight(parked.locals)))
  /\ UNCHANGED << fields, site, matchRun, pageRun, scoreRun >>

\* both requests have ended: one of them is issued again, alone
Replay ==
  /\ parked.phase = "pair"
  /\ pc = "done"
  /\ parked.locals.pc = "done"
  /\ \E ended \in {Locals, parked.locals} :
       /\ Resume(Started(ended.provider, ended.anilistId), NoManga)
       /\ parked' = Parked("replay", ended, parked.overlapped)
  /\ UNCHANGED << fields, site, matchRun, pageRun, scoreRun >>

NextPair ==
  \/ Next
  \/ Yield
  \/ Replay

SpecPair == InitPair /\ [][NextPair]_vars

\* ------------------------------------------------------------------------
\* The match selectors applied to arbitrary inputs
\* ------------------------------------------------------------------------
MaxCandidates == 2
MaxMatchSynonyms == 1

MatchTitles == { << "a", "b", " ", "c", "d" >>, << "v", "w", "x", "y" >> }
MatchSynonymPool == { << "v", "w", "x", "y" >>, << "a", "b", "x", "y", "z" >> }

\* candidates: an exact title in another case, a title at similarity 2/5 of
\* "ab cd", a title far from "ab cd" whose altTitles hold it, a title at 1/3,
\* a title at 3/10
MatchListings ==
  { [id |-> 1, title |-> << "A", "b", " ", "c", "d" >>, altTitles |-> << >>],
    [id |-> 2, title |-> << "a", "b", "x", "y", "z" >>, altTitles |-> << >>],
    [id |-> 3, title |-> << "v", "w", "x", "y", "z" >>,
     altTitles |-> << << "a", "b", " ", "c", "d" >> >>],
    [id |-> 4, title |-> << "a", "b", "p", "q", "r", "s" >>, altTitles |-> << >>],
    [id |-> 5, title |-> << "a", "b", " ", "p", "q", "r", "s", "t", "u", "w" >>,
     altTitles |-> << >>] }

MatchResultLists ==
  { r \in SeqsUpTo(MatchListings, MaxCandidates) :
      \A i, j \in 1..Len(r) : i # j => r[i] # r[j] }

Selectors == {"findBestMatch", "findBestMatchEarlier", "mangadex"}

MatchInputs ==
  { [selector |-> sel, results |-> r, title |-> t, synonyms |-> syn,
     applied |-> FALSE, threw |-> FALSE, error |-> << >>, bestMatch |-> NoManga,
     highestSimilarity |-> Zero] :
      sel \in Selectors, r \in MatchResultLists, t \in MatchTitles,
      syn \in SeqsUpTo(MatchSynonymPool, MaxMatchSynonyms) }

InitMatch ==
  /\ provider = "mangapark"
  /\ anilistId = "1"
  /\ pc = "idle"
  /\ animeInfo = NoInfo
  /\ idx = 0
  /\ results = << >>
  /\ bestMatch = NoManga
  /\ stage = "none"
  /\ calls = << >>
  /\ outcome = NoOutcome
  /\ response = NoResponse
  /\ matchRun \in MatchInputs
  /\ pageRun = NoPageRun
  /\ scoreRun = NoScoreRun
  /\ fields = Constructed
  /\ site = AnySite
  /\ parked = NoParked

Applied(selected) ==
  /\ matchRun' = [matchRun EXCEPT !.applied = TRUE,
                                  !.threw = selected.threw,
                                  !.error = selected.error,
                                  !.bestMatch = selected.bestMatch,
                                  !.highestSimilarity = selected.highestSimilarity]
  /\ UNCHANGED << provider, anilistId, pc, animeInfo, idx, results, bestMatch,
                  stage, calls, outcome, response, pageRun, scoreRun, fields,
                  site, parked >>

\* this.findBestMatch(results, title, synonyms) of the current Mapper
ApplyFindBestMatch ==
  /\ matchRun.selector = "findBestMatch"
  /\ ~matchRun.applied
  /\ Applied(findBestMatch(matchRun.results, matchRun.title, matchRun.synonyms))

\* this.findBestMatch(results, title, synonyms) of the earlier Mapper
ApplyFindBestMatchEarlier ==
  /\ matchRun.selector = "findBestMatchEarlier"
  /\ ~matchRun.applied
  /\ Applied(findBestMatchEarlier(matchRun.results, matchRun.title, matchRun.synonyms))

\* Step 3 of getChaptersByAnilistId on a non-empty result list, with
\* titlesToMatch = the title followed by the synonyms
ApplyMangadexBestMatch ==
  /\ matchRun.selector = "mangadex"
  /\ ~matchRun.applied
  /\ Len(matchRun.results) > 0
  /\ LET chosen == mangadexBestMatch(matchRun.results,
                                     << matchRun.title >> \o matchRun.synonyms)
     IN Applied([threw |-> FALSE, error |-> << >>, bestMatch |-> chosen.bestMatch,
                 highestSimilarity |-> chosen.highestSimilarity])

NextMatch ==
  \/ ApplyFindBestMatch
  \/ ApplyFindBestMatchEarlier
  \/ ApplyMangadexBestMatch

SpecMatch == InitMatch /\ [][NextMatch]_vars

\* ------------------------------------------------------------------------
\* The scorer applied to arbitrary pairs of strings
\* ------------------------------------------------------------------------
\* the longest string given to the scorer
MaxLen == 3

\* two letters and the capital of one of them
ScoreChars == {"a", "b", "A"}

\* every string of up to MaxLen characters, the empty string among them
ScoreStrings == SeqsUpTo(ScoreChars, MaxLen)

\* what a caller may pass: a string, or null / undefined
ScoreInputs == ScoreStrings \cup {Null}

NotApplied == << >>

\* One pair of arguments, and what the scorer returned for it when called
\* with the arguments in this order and in the other; distances are taken
\* of strings only.  The four calls are made one after the other.
ScoreRun(s1, s2) ==
  [s1 |-> s1, s2 |-> s2, given |-> TRUE,
   similarity |-> NotApplied, similaritySwapped |-> NotApplied,
   distance |-> NotApplied, distanceSwapped |-> NotApplied]

InitScore ==
  /\ provider = "mangadex"
  /\ anilistId = "1"
  /\ pc = "idle"
  /\ animeInfo = NoInfo
  /\ idx = 0
  /\ results = << >>
  /\ bestMatch = NoManga
  /\ stage = "none"
  /\ calls = << >>
  /\ outcome = NoOutcome
  /\ response = NoResponse
  /\ matchRun = NoRun
  /\ pageRun = NoPageRun
  /\ scoreRun \in { ScoreRun(s1, s2) : s1 \in ScoreInputs, s2 \in ScoreInputs }
  /\ fields = Constructed
  /\ site = AnySite
  /\ parked = NoParked

OnlyScoreRun ==
  UNCHANGED << provider, anilistId, pc, animeInfo, idx, results, bestMatch,
               stage, calls, outcome, response, matchRun, pageRun, fields, site,
               parked >>

\* this.stringSimilarity(s1, s2)
ApplyStringSimilarity ==
  /\ scoreRun.given
  /\ scoreRun.similarity = NotApplied
  /\ scoreRun' = [scoreRun EXCEPT
                    !.similarity = stringSimilarity(scoreRun.s1, scoreRun.s2)]
  /\ OnlyScoreRun

\* this.stringSimilarity(s2, s1)
ApplyStringSimilaritySwapped ==
  /\ scoreRun.given
  /\ scoreRun.similarity # NotApplied
  /\ scoreRun.similaritySwapped = NotApplied
  /\ scoreRun' = [scoreRun EXCEPT
                    !.similaritySwapped = stringSimilarity(scoreRun.s2, scoreRun.s1)]
  /\ OnlyScoreRun

\* this.editDistance(s1, s2), of two strings
ApplyEditDistance ==
  /\ scoreRun.given
  /\ scoreRun.s1 # Null /\ scoreRun.s2 # Null
  /\ scoreRun.similaritySwapped # NotApplied
  /\ scoreRun.distance = NotApplied
  /\ scoreRun' = [scoreRun EXCEPT
                    !.distance = << editDistance(scoreRun.s1, scoreRun.s2) >>]
  /\ OnlyScoreRun

\* this.editDistance(s2, s1), of two strings
ApplyEditDistanceSwapped ==
  /\ scoreRun.given
  /\ scoreRun.s1 # Null /\ scoreRun.s2 # Null
  /\ scoreRun.distance # NotApplied
  /\ scoreRun.distanceSwapped = NotApplied
  /\ scoreRun' = [scoreRun EXCEPT
                    !.distanceSwapped = << editDistance(scoreRun.s2, scoreRun.s1) >>]
  /\ OnlyScoreRun

NextScore ==
  \/ ApplyStringSimilarity
  \/ ApplyStringSimilaritySwapped
  \/ ApplyEditDistance
  \/ ApplyEditDistanceSwapped

SpecScore == InitScore /\ [][NextScore]_vars

\* ------------------------------------------------------------------------
\* The site adapters: chapter references and the URL each one is fetched at
\* ------------------------------------------------------------------------
\* the adapters that scrape a site's HTML
PageProviders == {"mangapark", "mangabuddy", "mangakakalot"}

\* A path segment is the sequence of its dash-separated words, so
\* << "901", "chapter", "1" >> is the segment "901-chapter-1".  A URL is a
\* host, the segments of its path and whether a query string follows.
Word(w) == << w >>
SiteUrl(host, path) == [host |-> host, path |-> path, query |-> FALSE]
NoUrl == [host |-> "", path |-> << >>, query |-> FALSE]

\* this.baseUrl of an adapter
baseUrl(p) == fields[p].baseUrl

\* `${url}/${segments}`
Under(url, path) == [url EXCEPT !.path = @ \o path]

\* the largest chapter number of a manga page
MaxChapter == 5

MangaIds == { << "one", "piece" >> }

\* the segment "<key>-chapter-<n>", "<key>-ch-<n>" or "chapter-<n>" a site
\* names chapter n with
ChapterSegment(style, n) ==
  CASE style = "chapter" -> << ToString(900 + n), "chapter", ToString(n) >>
    [] style = "ch" -> << ToString(900 + n), "ch", ToString(n) >>
    [] OTHER -> << "chapter", ToString(n) >>

\* the page a site serves chapter n of a manga at
ChapterPage(p, manga, segment) ==
  CASE p = "mangapark" -> Under(baseUrl(p), << Word("title"), manga, segment >>)
    [] p = "mangabuddy" -> Under(baseUrl(p), << manga, segment >>)
    [] OTHER -> Under(baseUrl(p), << Word("manga"), manga, segment >>)

\* A chapter reference as the caller passes it: a string that starts with
\* "http" (a URL, or no URL at all when valid is FALSE) or a path of one or
\* more segments separated by "/".
UrlRef(url) == [http |-> TRUE, valid |-> TRUE, url |-> url]
PathRef(path) == [http |-> FALSE, valid |-> TRUE, url |-> SiteUrl("", path)]
NotAUrl == [http |-> TRUE, valid |-> FALSE, url |-> NoUrl]

\* chapterId.startsWith('http')
startsWithHttp(chapterId) == chapterId.http

\* chapterId.includes('/')
includesSlash(path) == Len(path) > 1

\* MangaPark: a URL is requested as it is; any path goes under /title/
chapterUrlMangaPark(chapterId) ==
  IF startsWithHttp(chapterId) THEN chapterId.url
  ELSE IF includesSlash(chapterId.url.path)
       THEN Under(baseUrl("mangapark"), << Word("title") >> \o chapterId.url.path)
       ELSE Under(baseUrl("mangapark"), << Word("title") >> \o chapterId.url.path)

\* new URL(chapterId).pathname.substring(1): the path without host and query
chapterPathOf(chapterId) == chapterId.url.path

\* what MangaBuddy and MangaKakalot put before a manga id: `${this.baseUrl}/`
\* and `${this.baseUrl}/manga/`
mangaIdPrefix(p) == IF p = "mangakakalot" THEN << Word("manga") >> ELSE << >>

\* MangaBuddy and MangaKakalot: the first segment of a path of several is
\* the manga id, the rest is the chapter path
chapterUrlBySegments(p, chapterId) ==
  LET chapterPath == chapterPathOf(chapterId)
      mangaId == IF includesSlash(chapterPath) THEN << chapterPath[1] >> ELSE << >>
      rest == IF includesSlash(chapterPath) THEN Tail(chapterPath) ELSE chapterPath
  IN IF mangaId # << >>
     THEN Under(baseUrl(p), mangaIdPrefix(p) \o mangaId \o rest)
     ELSE Under(baseUrl(p), rest)

\* new URL(chapterId) throws on a string that is no URL
throwsInvalidUrl(p, chapterId) ==
  p # "mangapark" /\ startsWithHttp(chapterId) /\ ~chapterId.valid

chapterUrl(p, chapterId) ==
  IF p = "mangapark" THEN chapterUrlMangaPark(chapterId)
  ELSE chapterUrlBySegments(p, chapterId)

\* ------------------------------------------------------------------------
\* getMangaInfo: the chapter list of a manga page
\* ------------------------------------------------------------------------
LinkStyles == {"chapter", "ch", "plain"}

RECURSIVE Descending(_)
\* the numbers of a set, largest first
Descending(S) ==
  IF S = {} THEN << >>
  ELSE LET top == CHOOSE n \in S : \A m \in S : m <= n
       IN << top >> \o Descending(S \ {top})

\* A manga page: the chapters it links to in document order, each link named
\* by one style, the positions of the links that show no upload time, and the
\* number in its "CHAPTERS (n)" header (0: no header).  A site lists its
\* chapters newest first; it may also list two uploads of one chapter, or
\* list two chapters in any order.
MangaPages ==
  { [manga |-> m, style |-> st, numbers |-> Descending(S), undated |-> {},
     header |-> 0] :
      m \in MangaIds, st \in LinkStyles, S \in SUBSET (1..MaxChapter) }
  \cup { [manga |-> m, style |-> "chapter", numbers |-> << a, b >>,
          undated |-> U, header |-> 0] :
           m \in MangaIds, a \in 1..MaxChapter, b \in 1..MaxChapter,
           U \in SUBSET {1, 2} }
  \cup { [manga |-> m, style |-> "plain", numbers |-> << >>, undated |-> {},
          header |-> h] :
           m \in MangaIds, h \in 1..MaxChapter }

\* the text of a link's upload time, "" when the link shows none
dateText(page, k) == IF k \in page.undated THEN "" ELSE "2 days ago"

ChapterRecord(id, number, url, date, generated) ==
  [id |-> id, number |-> number, url |-> url, date |-> date,
   generated |-> generated]

\* lastPart.match(/\d+-chapter-\d+/) || lastPart.match(/\d+-ch-\d+/)
matchesKnownPattern(lastPart) ==
  Len(lastPart) = 3 /\ lastPart[2] \in {"chapter", "ch"}

\* MangaPark, first pass: the record of the k-th chapter link;
\* date: date || 'Unknown'
extractedChapter(page, k) ==
  LET n == page.numbers[k]
      lastPart == ChapterSegment(page.style, n)
      uniqueChapterId == IF matchesKnownPattern(lastPart) THEN lastPart
                         ELSE << "chapter", ToString(n) >>
      date == dateText(page, k)
  IN ChapterRecord(uniqueChapterId, n,
                   ChapterPage("mangapark", page.manga, lastPart),
                   IF date = "" THEN "Unknown" ELSE date, FALSE)

\* chapterMap.has(chapterNum): the map is kept as the sequence of its values
\* in insertion order
chapterMapHas(chapterMap, chapterNum) ==
  \E j \in 1..Len(chapterMap) : chapterMap[j].number = chapterNum

\* !chapterMap.get(chapterNum).date === 'Unknown': the negation binds first,
\* and a boolean is never strictly equal to a string
negatedDateIsUnknown(chapterMap, chapterNum) == FALSE

\* chapterMap.set(chapterNum, chapter): a new key is appended, the value of a
\* key already present is replaced in place
chapterMapSet(chapterMap, chapter) ==
  IF chapterMapHas(chapterMap, chapter.number)
  THEN [j \in 1..Len(chapterMap) |->
          IF chapterMap[j].number = chapter.number THEN chapter ELSE chapterMap[j]]
  ELSE Append(chapterMap, chapter)

RECURSIVE trackChapters(_, _, _)
\* if (!chapterMap.has(chapterNum) || !chapterMap.get(chapterNum).date === 'Unknown')
\*   chapterMap.set(chapterNum, chapter), over the links from the k-th on
trackChapters(page, k, chapterMap) ==
  IF k > Len(page.numbers) THEN chapterMap
  ELSE LET chapter == extractedChapter(page, k)
       IN trackChapters(page, k + 1,
            IF \/ ~chapterMapHas(chapterMap, chapter.number)
               \/ negatedDateIsUnknown(chapterMap, chapter.number)
            THEN chapterMapSet(chapterMap, chapter)
            ELSE chapterMap)

\* Array.from(chapterMap.values())
extractedChapters(page) == trackChapters(page, 1, << >>)

RECURSIVE highestOf(_, _, _)
highestOf(chapters, k, highest) ==
  IF k > Len(chapters) THEN highest
  ELSE highestOf(chapters, k + 1,
                 IF chapters[k].number > highest THEN chapters[k].number ELSE highest)

highestChapterNum(extracted) == highestOf(extracted, 1, 0)

\* a faulty variant of shouldGenerateChapters that fills every gap;
\* C20_GapFilledBelowHalf rejects it
shouldGenerateAnyGap(extracted) ==
  highestChapterNum(extracted) > 0 /\ Len(extracted) < highestChapterNum(extracted)

\* highestChapterNum > 0 && extractedChapters.length < highestChapterNum / 2
shouldGenerateChapters(extracted) ==
  highestChapterNum(extracted) > 0 /\ 2 * Len(extracted) < highestChapterNum(extracted)

Abs(n) == IF n < 0 THEN 0 - n ELSE n

\* ch.id.includes('-chapter-') || ch.id.includes('-ch-')
includesChapterWord(id) == Len(id) = 3 /\ id[2] \in {"chapter", "ch"}

\* template.url.replace(/\/<pattern>$/, `/${generatedId}`)
replaceLastSegment(url, segment) ==
  [url EXCEPT !.path = SubSeq(@, 1, Len(@) - 1) \o << segment >>]

\* a faulty variant of generatedChapter that leaves the placeholder unmarked;
\* C21_GeneratedExactlyWhenNotScraped rejects it
generatedChapterUnmarked(mangaId, extracted, i) ==
  ChapterRecord(<< "chapter", ToString(i) >>, i,
                Under(baseUrl("mangapark"),
                      << Word("title"), mangaId, << "chapter", ToString(i) >> >>),
                "Unknown", FALSE)

\* the placeholder of chapter i
generatedChapter(mangaId, extracted, i) ==
  LET nearbyChapters == SelectSeq(extracted, LAMBDA ch :
                          Abs(ch.number - i) < 5 /\ includesChapterWord(ch.id))
      template == nearbyChapters[1]
      generatedId == IF nearbyChapters # << >> /\ template.id[2] = "ch"
                     THEN << "ch", ToString(i) >>
                     ELSE << "chapter", ToString(i) >>
      generatedUrl == IF nearbyChapters # << >>
                      THEN replaceLastSegment(template.url, generatedId)
                      ELSE Under(baseUrl("mangapark"),
                                 << Word("title"), mangaId, generatedId >>)
  IN ChapterRecord(generatedId, i, generatedUrl, "Unknown", TRUE)

RECURSIVE sortByNumberDescending(_)
\* chapters.sort((a, b) => b.number - a.number), on distinct numbers
sortByNumberDescending(chapters) ==
  IF chapters = << >> THEN << >>
  ELSE LET top == CHOOSE k \in 1..Len(chapters) :
                    \A j \in 1..Len(chapters) : chapters[j].number <= chapters[k].number
       IN << chapters[top] >>
            \o sortByNumberDescending(SelectSeq(chapters, LAMBDA ch : ch # chapters[top]))

getMangaInfoMangaPark(mangaId, page) ==
  LET extracted == extractedChapters(page)
      highest == highestChapterNum(extracted)
      missing == { i \in 1..highest : \A k \in 1..Len(extracted) : extracted[k].number # i }
      generated == [k \in 1..Cardinality(missing) |->
                      generatedChapter(mangaId, extracted,
                                       Descending(missing)[Cardinality(missing) + 1 - k])]
  IN IF shouldGenerateChapters(extracted)
     THEN sortByNumberDescending(extracted \o generated)
     ELSE sortByNumberDescending(extracted)

\* MangaBuddy: the latest chapter is the header's number, else the highest
\* number among the "/<manga>/chapter-<n>" links, else 1
latestChapter(page) ==
  IF page.header > 0 THEN page.header
  ELSE IF page.style = "plain" /\ page.numbers # << >>
       THEN Descending({ page.numbers[k] : k \in 1..Len(page.numbers) })[1]
  ELSE 1

\* MangaBuddy: chapters latestChapter, ..., 1, none of them scraped
getMangaInfoMangaBuddy(mangaId, page) ==
  [i \in 1..latestChapter(page) |->
     LET chapterNum == latestChapter(page) + 1 - i
     IN ChapterRecord(<< "chapter", ToString(chapterNum) >>, chapterNum,
                      Under(baseUrl("mangabuddy"),
                            << mangaId, << "chapter", ToString(chapterNum) >> >>),
                      IF chapterNum = latestChapter(page) THEN "Recent" ELSE "Unknown",
                      FALSE)]

\* MangaBuddy, the earlier copy of the adapter: one record per row of
\* .chapter-list in document order, its id "chapter-<number>"; no sort
getMangaInfoEarlier(mangaId, page) ==
  [k \in 1..Len(page.numbers) |->
     ChapterRecord(<< "chapter", ToString(page.numbers[k]) >>, page.numbers[k],
                   ChapterPage("mangabuddy", page.manga,
                               ChapterSegment(page.style, page.numbers[k])),
                   dateText(page, k), FALSE)]

\* MangaKakalot: one record per row, its id the last segment of the link;
\* the records carry no url
getMangaInfoMangaKakalot(mangaId, page) ==
  [k \in 1..Len(page.numbers) |->
     ChapterRecord(ChapterSegment(page.style, page.numbers[k]), page.numbers[k],
                   NoUrl, dateText(page, k), FALSE)]

getMangaInfo(p, mangaId, page) ==
  CASE p = "mangapark" -> getMangaInfoMangaPark(mangaId, page)
    [] p = "mangabuddy" -> getMangaInfoMangaBuddy(mangaId, page)
    [] OTHER -> getMangaInfoMangaKakalot(mangaId, page)

\* ------------------------------------------------------------------------
\* Chapter documents and what the extraction patterns find in them
\* ------------------------------------------------------------------------
\* An image URL as the patterns see it: where it points ("cdn": the site's
\* image domain, "other": another host, "relative": no host), its file
\* name and extension, and the marker word it contains ("none": none).
ImageUrl(domain, name, ext, word) ==
  [domain |-> domain, name |-> name, ext |-> ext, word |-> word]

\* A value the extraction handles: a string of URLs joined by commas, with
\* the character a pattern took along after it; or what a script array holds
\* in place of a string: null, or the number an item has as its url.
Str(parts) == [parts |-> parts, tail |-> ""]
NullItem == [parts |-> << >>, tail |-> "null"]
NumberItem == [parts |-> << >>, tail |-> "number"]
isString(s) == s.tail \notin {"null", "number"}

\* (jpg|jpeg|png|webp)
ImageExts == {"jpg", "jpeg", "png", "webp"}

\* s.includes(word), for the marker words the filters look for
includesWord(s, word) == \E k \in 1..Len(s.parts) : s.parts[k].word = word
includesAny(s, words) == \E w \in words : includesWord(s, w)

\* s.match(/\.(jpg|jpeg|png|webp)$/i)
endsWithImage(s) ==
  s.tail = "" /\ s.parts # << >> /\ s.parts[Len(s.parts)].ext \in ImageExts

\* s.startsWith('http')
isAbsolute(u) == u.domain # "relative"

\* A fragment of a document:
\*   json    "url":"<value>" inside a script, its slashes escaped or not
\*   text    a URL in running text, followed by "<"
\*   img     an <img data-src="<value>">, inside the reader element or not;
\*           the value is one URL or several joined by commas; the element
\*           may carry a src attribute after it (<< >>: it carries none)
\*   script  var images = <payload>; the payload parses as a JSON array of
\*           the items, or does not parse
Fragment(kind, escaped, reader, value, parses, items) ==
  [kind |-> kind, escaped |-> escaped, reader |-> reader, value |-> value,
   src |-> << >>, parses |-> parses, items |-> items]

Json(u, escaped) == Fragment("json", escaped, FALSE, << u >>, FALSE, << >>)
Text(u) == Fragment("text", FALSE, FALSE, << u >>, FALSE, << >>)
Img(value, reader) == Fragment("img", FALSE, reader, value, FALSE, << >>)
ImgBoth(value, src, reader) == [Img(value, reader) EXCEPT !.src = src]
Script(parses, items) == Fragment("script", FALSE, FALSE, << >>, parses, items)

\* The runs of URL characters in the raw text of a fragment, each with the
\* character that follows it: a pattern's [^"'\s)]+ cannot cross a quote or
\* a "<" that is followed by a tag, and does cross a comma.
rawRuns(f) ==
  CASE f.kind = "json" ->
         IF f.escaped THEN << >> ELSE << [parts |-> f.value, follow |-> "quote"] >>
    [] f.kind = "text" -> << [parts |-> f.value, follow |-> "<"] >>
    [] f.kind = "img" ->
         << [parts |-> f.value, follow |-> "quote"] >>
           \o IF f.src = << >> THEN << >>
              ELSE << [parts |-> f.src, follow |-> "quote"] >>
    [] OTHER ->
         IF f.parses
         THEN LET strings == SelectSeq(f.items, isString)
              IN [k \in 1..Len(strings) |->
                    [parts |-> strings[k].parts, follow |-> "quote"]]
         ELSE << >>

\* the positions of a run a pattern can end at: an extension of exts, and a
\* following character when the pattern asks for one more
EndsIn(run, exts, oneMore) ==
  { j \in 1..Len(run.parts) :
      /\ run.parts[j].ext \in exts
      /\ oneMore => (j < Len(run.parts) \/ run.follow # "quote") }

\* the positions of a run a pattern can start at: "http" on a host of hosts,
\* with at least `atLeast` ends at or after it
StartsIn(run, hosts, exts, oneMore, atLeast) ==
  { i \in 1..Len(run.parts) :
      /\ run.parts[i].domain \in hosts
      /\ Cardinality({ j \in EndsIn(run, exts, oneMore) : j >= i }) >= atLeast }

SetMin(S) == CHOOSE x \in S : \A y \in S : x <= y
SetTop(S) == CHOOSE x \in S : \A y \in S : y <= x

\* The one match of a greedy pattern https?://<host>[^"'\s)]+\.<ext> in a
\* run: from the first start to the last end, commas included.
matchInRun(run, hosts, exts, oneMore, atLeast) ==
  LET starts == StartsIn(run, hosts, exts, oneMore, atLeast)
      i == SetMin(starts)
      j == SetTop(EndsIn(run, exts, oneMore))
  IN IF starts = {} THEN << >>
     ELSE << [parts |-> SubSeq(run.parts, i, j),
              tail |-> IF ~oneMore THEN ""
                       ELSE IF j < Len(run.parts) THEN "," ELSE run.follow] >>

RECURSIVE Flatten(_)
Flatten(ss) == IF Len(ss) = 0 THEN << >> ELSE Head(ss) \o Flatten(Tail(ss))

\* Array.from(htmlContent.matchAll(regex)) for such a pattern
matchAll(html, hosts, exts, oneMore, atLeast) ==
  Flatten([k \in 1..Len(html) |->
    LET runs == rawRuns(html[k])
    IN Flatten([r \in 1..Len(runs) |->
                  matchInRun(runs[r], hosts, exts, oneMore, atLeast)])])

AnyHost == {"cdn", "other"}

\* /"url":"([^"]+\.(?:jpg|jpeg|png|webp))"/gi, slashes unescaped
jsonMatches(html) ==
  LET found == SelectSeq(html, LAMBDA f : f.kind = "json" /\ f.value[1].ext \in ImageExts)
  IN [k \in 1..Len(found) |-> Str(found[k].value)]

\* /data-?src="([^"]+)"|src="([^"]+\.(?:jpg|jpeg|png|webp))"/gi
\* every data-src value is a match, and so is every src value that ends in
\* an image extension: an element with both attributes gives two matches
attributeMatches(html) ==
  LET found == SelectSeq(html, LAMBDA f : f.kind = "img")
  IN Flatten([k \in 1..Len(found) |->
       << Str(found[k].value) >>
         \o IF found[k].src # << >> /\ endsWithImage(Str(found[k].src))
            THEN << Str(found[k].src) >> ELSE << >>])

\* MangaBuddy: the elements the reader selector picks, by
\* $element.attr('data-src') || $element.attr('src')
readerSources(html) ==
  LET found == SelectSeq(html, LAMBDA f : f.kind = "img" /\ f.reader)
  IN [k \in 1..Len(found) |->
        IF found[k].value # << >> THEN Str(found[k].value) ELSE Str(found[k].src)]

\* MangaKakalot: the images of .container-chapter-reader, by
\* $(el).attr('src') || $(el).attr('data-src')
readerImageUrls(html) ==
  LET found == SelectSeq(html, LAMBDA f : f.kind = "img" /\ f.reader)
  IN [k \in 1..Len(found) |->
        IF found[k].src # << >> THEN Str(found[k].src) ELSE Str(found[k].value)]

\* s.split(',')
split(s) == [k \in 1..Len(s.parts) |-> Str(<< s.parts[k] >>)]

\* the script payloads /var\s+images\s*=\s*(\[.+?\])\s*;/s finds
scriptPayloads(html) == SelectSeq(html, LAMBDA f : f.kind = "script")

\* the image files and marker words of the documents
CdnA == ImageUrl("cdn", "a", "jpg", "none")
OtherB == ImageUrl("other", "b", "jpg", "none")
CdnC == ImageUrl("cdn", "c", "jpg", "none")
RelativeD == ImageUrl("relative", "d", "jpg", "none")
AvatarE == ImageUrl("other", "e", "png", "avatar")
OtherF == ImageUrl("other", "f", "jpg", "none")

DocFragments ==
  { Json(CdnA, FALSE), Json(OtherB, TRUE), Text(CdnC), Text(OtherB),
    Img(<< CdnA, OtherB >>, TRUE), Img(<< OtherB >>, TRUE),
    Img(<< AvatarE >>, FALSE), Img(<< AvatarE >>, TRUE),
    ImgBoth(<< OtherB >>, << OtherF >>, TRUE),
    Script(TRUE, << Str(<< RelativeD >>) >>), Script(FALSE, << >>),
    Script(TRUE, << NumberItem >>), Script(TRUE, << Str(<< RelativeD >>), NullItem >>) }

\* the largest number of fragments of a document
MaxFragments == 2

Documents == SeqsUpTo(DocFragments, MaxFragments)

\* ------------------------------------------------------------------------
\* fetchChapterPages: the document fetch and the extraction methods
\* ------------------------------------------------------------------------
\* what the site answers a document request with
Served(html) == [kind |-> "ok", html |-> html]
StatusFailure == [kind |-> "status", html |-> << >>]
TransportFailure == [kind |-> "transport", html |-> << >>]
FetchAnswers == { Served(html) : html \in Documents } \cup {StatusFailure, TransportFailure}

\* the message of the error a failed document request throws: fetchHtml of
\* MangaPark wraps it, fetchHtml of MangaBuddy re-throws it, axios names
\* the status
fetchError(p, answer) ==
  LET cause == IF answer.kind = "transport" THEN << "request to the site failed" >>
               ELSE IF p = "mangakakalot"
               THEN << "Request failed with status code ", "404" >>
               ELSE << "Failed to fetch ", "<url>", ": ", "404", " ", "Not Found" >>
  IN IF p = "mangapark" THEN Wrap("Network error: ", cause) ELSE cause

\* catch (error) { throw new Error(`Failed to fetch chapter pages from
\* <Site>: ${error.message}`) }
pagesErrorPrefix(p) ==
  CASE p = "mangapark" -> "Failed to fetch chapter pages from MangaPark: "
    [] p = "mangabuddy" -> "Failed to fetch chapter pages from MangaBuddy: "
    [] OTHER -> "Failed to fetch chapter pages from MangaKakalot: "

\* The progress of one extraction: the records pushed so far, their URLs in
\* the order they were pushed in, the methods that ran and the methods that
\* pushed at least one record.
NoPages == [pages |-> << >>, seen |-> << >>, ran |-> {}, used |-> {}]

RECURSIVE pushEachAgain(_, _, _, _)
\* a faulty variant of pushEach that pushes a URL it already holds;
\* C15_NoUrlTwice rejects it
pushEachAgain(pages, found, k, index) ==
  IF k > Len(found) THEN pages
  ELSE pushEachAgain(Append(pages, [url |-> found[k], index |-> index]),
                     found, k + 1, index + 1)

RECURSIVE pushEach(_, _, _, _)
\* if (!existingUrls.has(url)) pages.push({ url, index: index++ })
pushEach(pages, found, k, index) ==
  IF k > Len(found) THEN pages
  ELSE IF \E p \in 1..Len(pages) : pages[p].url = found[k]
       THEN pushEach(pages, found, k + 1, index)
       ELSE pushEach(Append(pages, [url |-> found[k], index |-> index]),
                     found, k + 1, index + 1)

\* one method run from a given first index
runMethod(st, method, found, index) ==
  LET pushed == pushEach(st.pages, found, 1, index)
  IN [pages |-> pushed, seen |-> [k \in 1..Len(pushed) |-> pushed[k].url],
      ran |-> st.ran \cup {method},
      used |-> IF Len(pushed) > Len(st.pages) THEN st.used \cup {method} ELSE st.used]

\* if (pages.length === 0) { ... }
whenEmpty(st, method, found, index) ==
  IF Len(st.pages) = 0 THEN runMethod(st, method, found, index) ELSE st

\* the items a script loop reaches: reading a property of null throws, and
\* the catch around the loop ends it
RECURSIVE itemsBeforeNull(_)
itemsBeforeNull(items) ==
  IF Len(items) = 0 \/ Head(items) = NullItem THEN << >>
  ELSE << Head(items) >> \o itemsBeforeNull(Tail(items))

\* JSON.parse(scriptMatch[1]) and the loop over the array, inside try/catch
scriptItems(payload) == IF payload.parses THEN itemsBeforeNull(payload.items) ELSE << >>

\* htmlContent.match(pattern): the first payload only
firstScriptItems(html) ==
  LET payloads == scriptPayloads(html)
  IN IF Len(payloads) = 0 THEN << >> ELSE scriptItems(payloads[1])

\* the broad pattern, which takes one more character along, and its filter
broadMatches(html) ==
  SelectSeq(matchAll(html, AnyHost, ImageExts, TRUE, 1), LAMBDA s :
    ~includesAny(s, {"avatar", "icon", "logo", "banner"}))

RECURSIVE sortByIndex(_)
\* pages.sort((a, b) => a.index - b.index)
sortByIndex(pages) ==
  IF Len(pages) = 0 THEN << >>
  ELSE LET first == SetMin({ k \in 1..Len(pages) :
                               \A j \in 1..Len(pages) : pages[k].index <= pages[j].index })
       IN << pages[first] >>
            \o sortByIndex([k \in 1..(Len(pages) - 1) |->
                              IF k < first THEN pages[k] ELSE pages[k + 1]])

\* fullUrl of MangaPark's method 3: a relative URL is put under baseUrl
fullUrl(s) ==
  IF isAbsolute(s.parts[1]) THEN s ELSE [s EXCEPT !.parts[1].domain = "site"]

\* MangaPark: methods 1 and 2 always run, methods 3 to 5 on empty pages
extractMangaPark(html) ==
  LET m1 == runMethod(NoPages, 1, jsonMatches(html), 1)
      m2 == runMethod(m1, 2, matchAll(html, {"cdn"}, ImageExts, FALSE, 1),
                      Len(m1.pages) + 1)
      m3 == whenEmpty(m2, 3,
              LET kept == SelectSeq(attributeMatches(html), LAMBDA s :
                            /\ ~includesAny(s, {"avatar", "icon", "logo", "banner"})
                            /\ endsWithImage(s))
              IN [k \in 1..Len(kept) |-> fullUrl(kept[k])],
              1)
      m4 == whenEmpty(m3, 4, firstScriptItems(html), 1)
      m5 == whenEmpty(m4, 5, broadMatches(html), 1)
  IN [m5 EXCEPT !.pages = sortByIndex(@)]

\* a faulty variant of addEach that numbers every method's URLs from 1;
\* C16_IndexesCountFromOne rejects it
addEachFromOne(st, method, found) == runMethod(st, method, found, 1)

\* uniqueUrls.add(url) for each url, then the index of Array.from(...).map
addEach(st, method, found) == runMethod(st, method, found, Len(st.pages) + 1)

\* the members of the comma-separated lists, split
splitEach(lists) == Flatten([k \in 1..Len(lists) |-> split(lists[k])])

\* MangaBuddy: methods 1 and 2 always run, methods 3 to 6 on an empty set
extractMangaBuddy(html) ==
  LET m1 == addEach(NoPages, 1,
              SelectSeq(splitEach(matchAll(html, AnyHost, ImageExts, FALSE, 2)),
                        LAMBDA s : ~includesAny(s, {"avatar", "icon", "thumb."})))
      m2 == addEach(m1, 2,
              splitEach(SelectSeq(readerSources(html), LAMBDA s :
                          ~includesAny(s, {"x.gif", "thumb.", "thumbnail."}))))
      m3 == whenEmpty(m2, 3, matchAll(html, {"cdn"}, ImageExts \cup {"gif"}, FALSE, 1), 1)
      m4 == whenEmpty(m3, 4, jsonMatches(html), 1)
      m5 == whenEmpty(m4, 5, firstScriptItems(html), 1)
      m6 == whenEmpty(m5, 6, broadMatches(html), 1)
  IN [m6 EXCEPT !.pages = sortByIndex(@)]

\* MangaKakalot: method 1 always runs, methods 2 and 3 on an empty set;
\* method 3 reads every script
collectMangaKakalot(html) ==
  LET m1 == addEach(NoPages, 1,
              SelectSeq(readerImageUrls(html), LAMBDA s :
                ~includesAny(s, {"thumb.", "logo", "icon"})))
      m2 == whenEmpty(m1, 2,
              SelectSeq(matchAll(html, AnyHost, ImageExts, FALSE, 1), LAMBDA s :
                ~includesAny(s, {"thumb.", "logo", "icon", "avatars"})),
              1)
  IN whenEmpty(m2, 3,
       LET payloads == scriptPayloads(html)
       IN Flatten([k \in 1..Len(payloads) |-> scriptItems(payloads[k])]),
       1)

\* MangaKakalot's closing filter calls url.match(...) on every member of the
\* set, which throws on a member that is no string
filterThrows(html) ==
  LET st == collectMangaKakalot(html)
  IN \E k \in 1..Len(st.pages) : ~isString(st.pages[k].url)

\* MangaKakalot: the filter renumbers what it keeps
extractMangaKakalot(html) ==
  LET st == collectMangaKakalot(html)
      kept == SelectSeq(st.pages, LAMBDA page :
                /\ endsWithImage(page.url)
                /\ ~includesAny(page.url, {"avatar", "logo", "banner"}))
  IN [st EXCEPT !.pages = sortByIndex([k \in 1..Len(kept) |->
                                         [url |-> kept[k].url, index |-> k]])]

extract(p, html) ==
  CASE p = "mangapark" -> extractMangaPark(html)
    [] p = "mangabuddy" -> extractMangaBuddy(html)
    [] OTHER -> extractMangaKakalot(html)

\* what one call of fetchChapterPages does: the URLs it requests, and the
\* list it returns or the error it throws
PagesResult(requested, threw, error, st) ==
  [requested |-> requested, threw |-> threw, error |-> error,
   pages |-> st.pages, seen |-> st.seen, ran |-> st.ran, used |-> st.used]

fetchChapterPages(p, chapterId, answer) ==
  IF throwsInvalidUrl(p, chapterId)
  THEN PagesResult(<< >>, TRUE, Wrap(pagesErrorPrefix(p), << "Invalid URL" >>), NoPages)
  ELSE LET requested == << chapterUrl(p, chapterId) >>
       IN IF answer.kind # "ok"
          THEN PagesResult(requested, TRUE,
                           Wrap(pagesErrorPrefix(p), fetchError(p, answer)), NoPages)
          ELSE IF p = "mangakakalot" /\ filterThrows(answer.html)
          THEN PagesResult(requested, TRUE,
                           Wrap(pagesErrorPrefix(p), << "url.match is not a function" >>),
                           NoPages)
          ELSE PagesResult(requested, FALSE, NoError, extract(p, answer.html))

\* ------------------------------------------------------------------------
\* The adapters called on a site: getMangaInfo, then fetchChapterPages on a
\* reference of the caller or on the id of a returned record
\* ------------------------------------------------------------------------
NoPage ==
  [manga |-> << >>, style |-> "none", numbers |-> << >>, undated |-> {},
   header |-> 0]

\* the manga pages a site serves
PagesOf(p) ==
  IF p = "mangabuddy" THEN MangaPages ELSE { page \in MangaPages : page.header = 0 }

\* the chapter references a caller passes for chapter 1 of a manga: its
\* bare segment, "mangaId/chapterId", the URL of its page with and without
\* a query string, a URL of another host, and a string that is no URL
ExternalRefs(p) ==
  UNION { { PathRef(<< ChapterSegment("chapter", 1) >>),
            PathRef(<< m, ChapterSegment("chapter", 1) >>),
            UrlRef(ChapterPage(p, m, ChapterSegment("chapter", 1))),
            UrlRef([ChapterPage(p, m, ChapterSegment("chapter", 1)) EXCEPT !.query = TRUE]),
            UrlRef(SiteUrl("elsewhere", << m, ChapterSegment("chapter", 1) >>)),
            NotAUrl } : m \in MangaIds }

\* one adapter call: what it was given, what the site answered with and
\* what it did
PageRun(op, page, chapters, chapterId, named, answer, result) ==
  [op |-> op, page |-> page, chapters |-> chapters, chapterId |-> chapterId,
   named |-> named, answer |-> answer.kind, html |-> answer.html,
   requested |-> result.requested, threw |-> result.threw, error |-> result.error,
   pages |-> result.pages, seen |-> result.seen, ran |-> result.ran,
   used |-> result.used]

InitPages ==
  /\ provider \in PageProviders
  /\ anilistId = "1"
  /\ pc = "idle"
  /\ animeInfo = NoInfo
  /\ idx = 0
  /\ results = << >>
  /\ bestMatch = NoManga
  /\ stage = "none"
  /\ calls = << >>
  /\ outcome = NoOutcome
  /\ response = NoResponse
  /\ matchRun = NoRun
  /\ pageRun = NoPageRun
  /\ scoreRun = NoScoreRun
  /\ fields = Constructed
  /\ site = AnySite
  /\ parked = NoParked

OnlyPageRun ==
  UNCHANGED << provider, anilistId, pc, animeInfo, idx, results, bestMatch,
               stage, calls, outcome, response, matchRun, scoreRun, fields, site,
               parked >>

\* getMangaInfo(mangaId) on a page the site serves
GetMangaInfo(p) ==
  /\ pageRun.op = "none"
  /\ \E page \in PagesOf(p) :
       pageRun' = PageRun("getMangaInfo", page, getMangaInfo(p, page.manga, page),
                          PathRef(<< >>), NoUrl, Served(<< >>),
                          PagesResult(<< >>, FALSE, NoError, NoPages))
  /\ OnlyPageRun

\* getMangaInfo(mangaId) of the earlier copy of the MangaBuddy adapter
GetMangaInfoEarlier(p) ==
  /\ pageRun.op = "none"
  /\ p = "mangabuddy"
  /\ \E page \in PagesOf(p) :
       pageRun' = PageRun("getMangaInfoEarlier", page,
                          getMangaInfoEarlier(page.manga, page),
                          PathRef(<< >>), NoUrl, Served(<< >>),
                          PagesResult(<< >>, FALSE, NoError, NoPages))
  /\ OnlyPageRun

\* the page a returned record names: its url, or the link its id was taken
\* from where the records carry no url
NamedBy(p, page, chapter) ==
  IF chapter.url # NoUrl THEN chapter.url ELSE ChapterPage(p, page.manga, chapter.id)

\* what the site may answer: a request for a string that is no URL fails
AnswersTo(chapterId) ==
  IF chapterId.valid THEN FetchAnswers ELSE {TransportFailure}

\* the caller takes one record of the returned list to read its pages
ChooseChapter(p) ==
  /\ pageRun.op = "getMangaInfo"
  /\ \E k \in 1..Len(pageRun.chapters) :
       pageRun' = [pageRun EXCEPT !.op = "chosen",
                                  !.page = NoPage,
                                  !.chapters = << pageRun.chapters[k] >>,
                                  !.named = NamedBy(p, pageRun.page, pageRun.chapters[k])]
  /\ OnlyPageRun

\* fetchChapterPages(chapterId) on a reference of the caller, or on the id
\* of the record taken from getMangaInfo's list
FetchChapterPages(p) ==
  /\ \/ /\ pageRun.op = "none"
        /\ \E chapterId \in ExternalRefs(p) : \E answer \in AnswersTo(chapterId) :
             pageRun' = PageRun("fetchChapterPages", NoPage, << >>, chapterId, NoUrl,
                                answer, fetchChapterPages(p, chapterId, answer))
     \/ /\ pageRun.op = "chosen"
        /\ \E answer \in FetchAnswers :
             LET chapterId == PathRef(<< pageRun.chapters[1].id >>)
             IN pageRun' = PageRun("fetchChapterPages", NoPage, pageRun.chapters,
                                   chapterId, pageRun.named, answer,
                                   fetchChapterPages(p, chapterId, answer))
  /\ OnlyPageRun

NextPages ==
  \/ GetMangaInfo(provider)
  \/ GetMangaInfoEarlier(provider)
  \/ ChooseChapter(provider)
  \/ FetchChapterPages(provider)

SpecPages == InitPages /\ [][NextPages]_vars

\* ------------------------------------------------------------------------
\* Properties of the chapter-listing requests (specification Spec)
\* ------------------------------------------------------------------------
Last(s) == s[Len(s)]
Range(s) == { s[k] : k \in 1..Len(s) }

SearchCalls == SelectSeq(calls, LAMBDA c : c.op = "search")
AlternateCalls == SelectSeq(calls, LAMBDA c : c.kind = "alternate")
DetailCalls == SelectSeq(calls, LAMBDA c : c.op = "getMangaInfo")

\* the search for the primary title returned an empty list
PrimaryReturnedNone ==
  \E n \in 1..Len(calls) :
    calls[n].kind = "primary" /\ ~calls[n].threw /\ ~calls[n].found

\* the k-th alternate search is the search for the k-th synonym
AlternatesInOrder ==
  Len(AlternateCalls) > 0 =>
    LET alternates == AlternateCalls
        given == synonyms
    IN \A k \in 1..Len(alternates) :
         /\ k <= Len(given)
         /\ alternates[k].arg = QueryOf(provider, given[k])

\* once an alternate search returned a result, no alternate is searched
NoAlternateAfterFound ==
  \A m, n \in 1..Len(calls) :
    (m < n /\ calls[m].kind = "alternate" /\ calls[m].found)
      => calls[n].kind # "alternate"

\* once the primary search returned a result, no alternate is searched
NoAlternateAfterPrimaryFound ==
  \A m, n \in 1..Len(calls) :
    (m < n /\ calls[m].kind = "primary" /\ calls[m].found)
      => calls[n].kind # "alternate"

\* C1 as stated: after a primary search with zero results the alternates are
\* searched in order, the search stops at the first alternate that returns a
\* result, the selection is made from that result set and no later alternate
\* is searched.
C1_StopsAtFirstAlternateWithResults ==
  PrimaryReturnedNone =>
    /\ AlternatesInOrder
    /\ NoAlternateAfterFound
    /\ (pc = "fetchDetails" /\ Last(calls).kind = "alternate")
         => bestMatch \in Range(results)

\* C1, as the code has it: every orchestrator searches the alternates in their
\* given order; AsuraScans, MangaPark and MangaKakalot stop at the first
\* alternate that returns a result and apply findBestMatch to that result set;
\* MangaBuddy selects from an alternate's result set only when a candidate
\* reaches similarity 0.4 against the synonym or the main title, and
\* otherwise goes on to the next alternate.
C1_AlternatesInOrderUntilAccepted ==
  /\ AlternatesInOrder
  /\ (provider \in HelperProviders /\ PrimaryReturnedNone) =>
       /\ NoAlternateAfterFound
       /\ pc = "fetchDetails" =>
            /\ Last(calls).kind = "alternate" /\ Last(calls).found
            /\ bestMatch \in Range(results)
            /\ bestMatch = findBestMatch(results, searchTitle, synonyms).bestMatch
  /\ (provider = "mangabuddy" /\ pc = "fetchDetails" /\ stage = "alternate") =>
       /\ Last(calls).kind = "alternate" /\ Last(calls).found
       /\ bestMatch \in Range(results)
       /\ FracGE(FracMax(stringSimilarity(bestMatch.title, synonyms[idx]),
                         stringSimilarity(bestMatch.title, searchTitle)),
                 << 2, 5 >>)

\* a MangaPark request that found its listing through the first of two
\* alternates and never searched the second
C1_Witness ==
  /\ provider = "mangapark"
  /\ pc = "done"
  /\ outcome.kind = "success"
  /\ PrimaryReturnedNone
  /\ Len(synonyms) = 2
  /\ Len(AlternateCalls) = 1
  /\ AlternateCalls[1].found

\* C2 as stated: in every orchestrator, once the primary search returned at
\* least one candidate no alternate search is issued.
C2_AlternateOnlyAfterEmptyPrimary == NoAlternateAfterPrimaryFound

\* C2, as the code has it: AsuraScans, MangaPark, MangaKakalot and MangaDex
\* never search an alternate after a primary search that returned a
\* candidate; MangaBuddy goes from the primary search to the detail fetch only
\* with a candidate of title similarity 0.5 or more and before any alternate
\* search (below 0.5 it searches the alternates although candidates came back).
C2_AlternateOnlyAfterUnacceptedPrimary ==
  /\ provider # "mangabuddy" => NoAlternateAfterPrimaryFound
  /\ (provider = "mangabuddy" /\ pc = "fetchDetails" /\ stage = "primary") =>
       /\ Last(calls).kind = "primary" /\ Last(calls).found
       /\ Len(AlternateCalls) = 0
       /\ bestMatch \in Range(results)
       /\ FracGE(stringSimilarity(bestMatch.title, searchTitle), << 1, 2 >>)

\* a MangaKakalot request with synonyms at hand that succeeded from the
\* primary search alone
C2_Witness ==
  /\ provider = "mangakakalot"
  /\ pc = "done"
  /\ outcome.kind = "success"
  /\ Len(synonyms) > 0
  /\ calls[2].kind = "primary" /\ calls[2].found
  /\ Len(AlternateCalls) = 0

\* C3 as stated: no search before the catalog lookup has returned; the detail
\* fetch only after a search that returned a candidate, at most once per
\* request, and no search after it.
C3_LinearStateMachine ==
  /\ Len(SearchCalls) > 0 => (calls[1].op = "getInfo" /\ ~calls[1].threw)
  /\ \A n \in 1..Len(calls) :
       calls[n].op = "getMangaInfo" =>
         \E m \in 1..(n - 1) : calls[m].op = "search" /\ calls[m].found
  /\ Len(DetailCalls) <= 1
  /\ \A m, n \in 1..Len(calls) :
       (m < n /\ calls[m].op = "getMangaInfo") => calls[n].op # "search"

\* every search of the request returned an empty list, and the primary title
\* and every alternate were searched
AllTitlesReturnedNone ==
  /\ Len(SearchCalls) > 0
  /\ \A n \in 1..Len(SearchCalls) : ~SearchCalls[n].threw /\ ~SearchCalls[n].found
  /\ Len(AlternateCalls) = Len(synonyms)

\* C4 as stated: when the primary title and every alternate return zero
\* results the request ends in the NoListingFound failure (the "No matching
\* manga found on <Site>" error the route answers with 404 "Manga not
\* found"), never in a success, and without a detail fetch.
C4_NoListingFound ==
  (pc = "done" /\ AllTitlesReturnedNone) =>
    /\ outcome.kind = "failure"
    /\ Includes(outcome.message, << "No matching manga found on ", SiteName(provider) >>)
    /\ response = [status |-> 404, error |-> "Manga not found"]
    /\ Len(DetailCalls) = 0

\* C5: when the catalog lookup fails, the orchestrator fails with the
\* lookup's error wrapped in its own prefix, no search and no detail fetch is
\* issued, and the route answers 404 "Anilist ID not found" when AniList
\* reported errors or no media.
C5_IdentityNotFoundWithoutSearch ==
  (Len(calls) > 0 /\ calls[1].threw) =>
    /\ calls[1].op = "getInfo"
    /\ Len(calls) = 1
    /\ pc \in {"respond", "done"}
    /\ outcome.kind = "failure"
    /\ outcome.message = Wrap(MappingErrorPrefix(provider), calls[1].error)
    /\ pc = "done" =>
         /\ response.status \in {404, 500}
         /\ (\/ Includes(calls[1].error, << "No media found with ID " >>)
             \/ Includes(calls[1].error, << "Anilist API error: " >>))
              => response = [status |-> 404, error |-> "Anilist ID not found"]

\* a request whose catalog lookup failed and that was answered with 404
C5_Witness ==
  /\ pc = "done"
  /\ Len(calls) = 1
  /\ calls[1].threw
  /\ response = [status |-> 404, error |-> "Anilist ID not found"]

\* C6 as stated: when the request fails because an adapter call threw, the
\* message of the returned error contains the message of that call's error.
C6_FailureCarriesCause ==
  (outcome.kind = "failure" /\ Len(calls) > 0 /\ Last(calls).threw)
    => Includes(outcome.message, Last(calls).error)

\* C7 as stated: an alternate search that throws while alternates remain does
\* not end the request; any other adapter call that throws ends the request
\* with its error carried in the failure.
C7_ErrorsSwallowedOnlyInAlternateLoop ==
  /\ (/\ Len(calls) > 0
      /\ Last(calls).kind = "alternate" /\ Last(calls).threw
      /\ Len(AlternateCalls) < Len(synonyms))
       => outcome.kind # "failure"
  /\ \A n \in 1..Len(calls) :
       (calls[n].threw /\ calls[n].kind # "alternate") =>
         /\ n = Len(calls)
         /\ outcome.kind = "failure"
         /\ Includes(outcome.message, calls[n].error)

\* C8: a success carries the requested catalog ID and the id and title of the
\* chosen candidate, which is one of the latest search's results; the detail
\* fetch was called with that candidate's id, and the chapters are the ones it
\* returned, or the empty list when it returned none.
C8_SuccessCarriesChosenListing ==
  outcome.kind = "success" =>
    /\ outcome.anilist.id = anilistId
    /\ bestMatch \in Range(results)
    /\ outcome.site.id = bestMatch.id
    /\ outcome.site.title = bestMatch.title
    /\ Last(calls).op = "getMangaInfo"
    /\ ~Last(calls).threw
    /\ Last(calls).arg = bestMatch.id
    /\ outcome.site.chapters = IF SiteChapters(bestMatch.id) = Null THEN << >>
                               ELSE SiteChapters(bestMatch.id)

\* a success for listing 2, whose detail fetch returned no chapter list
C8_Witness ==
  /\ pc = "done"
  /\ outcome.kind = "success"
  /\ outcome.site.id = 2
  /\ outcome.site.chapters = << >>

\* ------------------------------------------------------------------------
\* Properties of the match selectors (specification SpecMatch)
\* ------------------------------------------------------------------------
\* the greatest of a non-empty set of similarities
SetMax(S) == CHOOSE x \in S : \A y \in S : FracGE(x, y)

\* the titles a run scores against: the title and every synonym
RunTitles == { matchRun.title } \cup Range(matchRun.synonyms)

\* the similarities of a candidate's title, and of its altTitles
TitleScores(manga) == { stringSimilarity(manga.title, t) : t \in RunTitles }
AltTitleScores(manga) ==
  { stringSimilarity(manga.altTitles[a], t) :
      a \in 1..Len(manga.altTitles), t \in RunTitles }

TitleScore(manga) == SetMax(TitleScores(manga))
FullScore(manga) == SetMax(TitleScores(manga) \cup AltTitleScores(manga))

\* a selector has been applied to a non-empty result list
Ran ==
  /\ matchRun.selector # "none"
  /\ matchRun.applied
  /\ Len(matchRun.results) > 0

\* C9 as stated: the score the selector works with is, per candidate, the
\* maximum similarity over the title and the synonyms of the candidate's title
\* and of every one of its altTitles.
C9_ScoreIncludesAltTitles ==
  Ran => FracEQ(matchRun.highestSimilarity,
                SetMax({ FullScore(m) : m \in Range(matchRun.results) }))

\* C9, as the code has it: findBestMatch (current and earlier) scores a
\* candidate by its title only, against the title and every synonym; only the
\* MangaDex selection also scores the candidate's altTitles.
C9_ScoreOfEachSelector ==
  Ran => IF matchRun.selector = "mangadex"
         THEN FracEQ(matchRun.highestSimilarity,
                     SetMax({ FullScore(m) : m \in Range(matchRun.results) }))
         ELSE FracEQ(matchRun.highestSimilarity,
                     SetMax({ TitleScore(m) : m \in Range(matchRun.results) }))

\* findBestMatch passed over a candidate whose altTitles match at 0.4 or more
\* while its title does not
C9_Witness ==
  /\ Ran
  /\ matchRun.selector = "findBestMatch"
  /\ \E m \in Range(matchRun.results) :
       /\ FracGT(FullScore(m), TitleScore(m))
       /\ FracGE(FullScore(m), << 2, 5 >>)
       /\ FracLT(TitleScore(m), << 2, 5 >>)
       /\ matchRun.bestMatch # m

\* the cutoff of each findBestMatch: 0.4 now, 0.3 in the earlier Mapper
CutoffOf(selector) ==
  IF selector = "findBestMatchEarlier" THEN << 3, 10 >> ELSE << 2, 5 >>

\* C10: on a non-empty list whose highest title similarity against the title
\* and the synonyms reaches the cutoff, findBestMatch returns a candidate of
\* the list that no other candidate outscores.
C10_ReturnsHighestScoring ==
  (/\ Ran
   /\ matchRun.selector \in {"findBestMatch", "findBestMatchEarlier"}
   /\ FracGE(SetMax({ TitleScore(m) : m \in Range(matchRun.results) }),
             CutoffOf(matchRun.selector)))
    => /\ ~matchRun.threw
       /\ matchRun.bestMatch \in Range(matchRun.results)
       /\ \A m \in Range(matchRun.results) :
            ~FracGT(TitleScore(m), TitleScore(matchRun.bestMatch))

\* findBestMatch returned the second of two candidates because it scores
\* higher than the first and reaches the cutoff
C10_Witness ==
  /\ Ran
  /\ matchRun.selector = "findBestMatch"
  /\ Len(matchRun.results) = 2
  /\ matchRun.bestMatch = matchRun.results[2]
  /\ FracGT(TitleScore(matchRun.results[2]), TitleScore(matchRun.results[1]))
  /\ FracGE(TitleScore(matchRun.results[2]), << 2, 5 >>)

\* the first position of the result list at which P holds
FirstWhere(P(_)) ==
  CHOOSE k \in 1..Len(matchRun.results) : P(k) /\ \A j \in 1..(k - 1) : ~P(j)

\* a candidate's similarity to the title, and its best similarity to a synonym
PrimaryScore(manga) == stringSimilarity(manga.title, matchRun.title)
SynonymScore(manga) ==
  SetMax({ Zero } \cup { stringSimilarity(manga.title, t) :
                           t \in Range(matchRun.synonyms) })

MaxTitleScore == SetMax({ TitleScore(m) : m \in Range(matchRun.results) })
MaxFullScore == SetMax({ FullScore(m) : m \in Range(matchRun.results) })

RanFindBestMatch ==
  Ran /\ matchRun.selector \in {"findBestMatch", "findBestMatchEarlier"}

\* C11 as stated: when the highest score reaches the cutoff, findBestMatch
\* returns the first candidate in input order among those whose score (the
\* maximum over the title and all synonyms) equals the highest score.
C11_FirstInInputOrder ==
  (RanFindBestMatch /\ FracGE(MaxTitleScore, CutoffOf(matchRun.selector))) =>
    matchRun.bestMatch =
      matchRun.results[FirstWhere(LAMBDA k :
        FracEQ(TitleScore(matchRun.results[k]), MaxTitleScore))]

\* C11, as the code has it: findBestMatch scans all candidates against the
\* title first and against the synonyms afterwards, replacing the best match
\* only on a strictly higher similarity.  When a candidate reaches the highest
\* score through the title, the first such candidate is returned, even if an
\* earlier candidate reaches the same score through a synonym; otherwise the
\* first candidate that reaches the highest score through a synonym is
\* returned.  The MangaDex selection scores each candidate once and returns
\* the first candidate in input order with the highest score.
C11_FirstInScanOrder ==
  /\ (RanFindBestMatch /\ FracGE(MaxTitleScore, CutoffOf(matchRun.selector))) =>
       matchRun.bestMatch =
         IF \E m \in Range(matchRun.results) : FracEQ(PrimaryScore(m), MaxTitleScore)
         THEN matchRun.results[FirstWhere(LAMBDA k :
                FracEQ(PrimaryScore(matchRun.results[k]), MaxTitleScore))]
         ELSE matchRun.results[FirstWhere(LAMBDA k :
                FracEQ(SynonymScore(matchRun.results[k]), MaxTitleScore))]
  /\ (Ran /\ matchRun.selector = "mangadex" /\ FracGE(MaxFullScore, << 2, 5 >>)) =>
       matchRun.bestMatch =
         matchRun.results[FirstWhere(LAMBDA k :
           FracEQ(FullScore(matchRun.results[k]), MaxFullScore))]

\* findBestMatch returned the second of two candidates of equal score: the
\* first reaches the score through a synonym, the second through the title
C11_Witness ==
  /\ RanFindBestMatch
  /\ Len(matchRun.results) = 2
  /\ FracEQ(TitleScore(matchRun.results[1]), TitleScore(matchRun.results[2]))
  /\ FracGE(MaxTitleScore, << 2, 5 >>)
  /\ FracLT(PrimaryScore(matchRun.results[1]), MaxTitleScore)
  /\ matchRun.bestMatch = matchRun.results[2]

\* the score a selector works with: the MangaDex selection includes altTitles
MaxScoreOf(selector) ==
  IF selector = "mangadex" THEN MaxFullScore ELSE MaxTitleScore
ScoreOf(selector, manga) ==
  IF selector = "mangadex" THEN FullScore(manga) ELSE TitleScore(manga)

\* C12: on a non-empty list whose highest score is strictly below the cutoff
\* (0.4 for findBestMatch and the MangaDex selection, 0.3 for the earlier
\* findBestMatch) the selector returns the first candidate and does not fail;
\* a highest score equal to the cutoff is accepted and a candidate with that
\* score is returned.
C12_BelowCutoffReturnsFirst ==
  Ran =>
    /\ ~matchRun.threw
    /\ FracLT(MaxScoreOf(matchRun.selector), CutoffOf(matchRun.selector))
         => matchRun.bestMatch = matchRun.results[1]
    /\ FracEQ(MaxScoreOf(matchRun.selector), CutoffOf(matchRun.selector))
         => /\ matchRun.bestMatch \in Range(matchRun.results)
            /\ FracEQ(ScoreOf(matchRun.selector, matchRun.bestMatch),
                      CutoffOf(matchRun.selector))

\* the second of two candidates scores higher than the first, but below the
\* cutoff, and the first one is returned
C12_Witness ==
  /\ Ran
  /\ Len(matchRun.results) = 2
  /\ FracGT(ScoreOf(matchRun.selector, matchRun.results[2]),
            ScoreOf(matchRun.selector, matchRun.results[1]))
  /\ FracLT(MaxScoreOf(matchRun.selector), CutoffOf(matchRun.selector))
  /\ matchRun.bestMatch = matchRun.results[1]

\* a findBestMatch has been applied to the empty list
RanOnEmptyList ==
  /\ matchRun.selector \in {"findBestMatch", "findBestMatchEarlier"}
  /\ matchRun.applied
  /\ Len(matchRun.results) = 0

\* C13 as stated: findBestMatch on an empty candidate list fails with the
\* NoCandidates error ("No manga results found to match with title") for
\* every title and every list of synonyms, and returns no value.
C13_EmptyListFailsWithNoCandidates ==
  RanOnEmptyList =>
    /\ matchRun.threw
    /\ matchRun.bestMatch = NoManga
    /\ Includes(matchRun.error, << "No manga results found to match with title: " >>)

\* ------------------------------------------------------------------------
\* Properties of the site adapters (specification SpecPages)
\* ------------------------------------------------------------------------
\* fetchChapterPages has been called, and has returned a list
Fetched == pageRun.op = "fetchChapterPages"
Returned == Fetched /\ ~pageRun.threw

\* C14 as stated: fetchChapterPages uses the output of exactly one extraction
\* method: the first method that yields a URL determines the whole result, no
\* method runs after it, and the returned list never holds URLs that two
\* different methods contributed.
C14_OneStrategyOnly ==
  Returned =>
    /\ Cardinality(pageRun.used) <= 1
    /\ \A m \in pageRun.used : \A n \in pageRun.ran : n <= m

\* C15: in the list one call of fetchChapterPages returns, no two records
\* have the same url, whatever methods contributed and however often a URL
\* occurs in the document.
C15_NoUrlTwice ==
  Returned =>
    \A i, j \in 1..Len(pageRun.pages) :
      i # j => pageRun.pages[i].url # pageRun.pages[j].url

\* the fragments of the fetched document that are <img> elements
ImgFragments == SelectSeq(pageRun.html, LAMBDA f : f.kind = "img")

\* MangaBuddy returned a list from a document that holds one URL both alone
\* in a data-src attribute and inside a comma-separated list, and the list
\* has one record for it
C15_Witness ==
  /\ Returned
  /\ provider = "mangabuddy"
  /\ \E u \in {OtherB} :
       /\ \E i, j \in 1..Len(ImgFragments) :
            /\ ImgFragments[i].value = << u >>
            /\ Len(ImgFragments[j].value) > 1
            /\ u \in Range(ImgFragments[j].value)
       /\ Cardinality({ k \in 1..Len(pageRun.pages) :
                          pageRun.pages[k].url = Str(<< u >>) }) = 1

\* C16: the index values of the n returned records are exactly 1, ..., n in
\* list order, and the records are in the order in which their URLs were
\* first pushed.
C16_IndexesCountFromOne ==
  Returned =>
    /\ \A k \in 1..Len(pageRun.pages) : pageRun.pages[k].index = k
    /\ LET urls == { pageRun.pages[k].url : k \in 1..Len(pageRun.pages) }
           kept == SelectSeq(pageRun.seen, LAMBDA url : url \in urls)
       IN /\ Len(kept) = Len(pageRun.pages)
          /\ \A k \in 1..Len(kept) : kept[k] = pageRun.pages[k].url

\* a returned list of three records to which two methods contributed
C16_Witness ==
  /\ Returned
  /\ Len(pageRun.pages) = 3
  /\ Cardinality(pageRun.used) = 2
  /\ pageRun.pages[3].index = 3

\* the document request of the call failed: a transport error or a
\* non-success status
FetchFailed == pageRun.answer # "ok"

\* C17 as stated: fetchChapterPages fails exactly when the document fetch
\* fails.  After a successful fetch it returns a list, whatever the script
\* payloads of the document hold; after a failed fetch it throws an error
\* that carries the upstream status or message.
C17_FailsExactlyWhenFetchFails ==
  Fetched =>
    /\ pageRun.threw <=> FetchFailed
    /\ (pageRun.threw /\ pageRun.answer = "status") => Includes(pageRun.error, << "404" >>)
    /\ (pageRun.threw /\ pageRun.answer = "transport") =>
         \/ Includes(pageRun.error, << "request to the site failed" >>)
         \/ Includes(pageRun.error, << "Invalid URL" >>)

\* the reference of the call is a URL on the adapter's own site
OwnSiteUrlGiven ==
  /\ Fetched
  /\ pageRun.chapterId.http
  /\ pageRun.chapterId.valid
  /\ pageRun.chapterId.url.host = provider

\* the reference of the call is "mangaId/chapterId"
CompositeGiven ==
  /\ Fetched
  /\ ~pageRun.chapterId.http
  /\ Len(pageRun.chapterId.url.path) = 2

\* C18 as stated: fetchChapterPages resolves a chapter reference to exactly
\* one URL and requests it once; given the URL of a chapter page on the
\* adapter's own site it requests that same URL, and given the composite
\* "mangaId/chapterId" of the chapter it requests the URL of the chapter's
\* page, so that both forms lead to the same request.
C18_AbsoluteResolvesToItself ==
  /\ (Fetched /\ pageRun.chapterId.valid) => Len(pageRun.requested) = 1
  /\ OwnSiteUrlGiven => pageRun.requested = << pageRun.chapterId.url >>
  /\ CompositeGiven =>
       pageRun.requested = << ChapterPage(provider, pageRun.chapterId.url.path[1],
                                          pageRun.chapterId.url.path[2]) >>

\* fetchChapterPages was called on the id of a record of getMangaInfo's list
IdReused == Fetched /\ pageRun.chapters # << >>

\* C19 as stated: the id of every record getMangaInfo returns is reusable as
\* the input of the same adapter's fetchChapterPages: the call requests the
\* chapter page the record names.
C19_IdLeadsToTheChapterPage ==
  IdReused => pageRun.requested = << pageRun.named >>

\* MangaPark's getMangaInfo has returned the chapter list of a page
ListedByMangaPark == pageRun.op = "getMangaInfo" /\ provider = "mangapark"

\* the chapter numbers the page links to, and those of the returned records
\* that are, and that are not, marked generated
ScrapedNumbers == Range(pageRun.page.numbers)
GeneratedNumbers ==
  { pageRun.chapters[k].number :
      k \in { j \in 1..Len(pageRun.chapters) : pageRun.chapters[j].generated } }
ExtractedNumbers ==
  { pageRun.chapters[k].number :
      k \in { j \in 1..Len(pageRun.chapters) : ~pageRun.chapters[j].generated } }

\* C20 as stated: given scraped chapters {1, 2, 5} with observed maximum 5,
\* the returned list holds chapters 3 and 4 as records marked generated;
\* given scraped chapters {1, 2, 3, 4, 5}, no generated record is added.
C20_GapsOf125Filled ==
  ListedByMangaPark =>
    /\ ScrapedNumbers = {1, 2, 5} => GeneratedNumbers = {3, 4}
    /\ ScrapedNumbers = {1, 2, 3, 4, 5} => GeneratedNumbers = {}

\* C20, corrected: MangaPark's getMangaInfo fills the gaps of 1..max only
\* when fewer chapters were scraped than half the observed maximum; then
\* every missing number up to the maximum gets a record marked generated,
\* otherwise no record is added.  The scraped chapters are returned unmarked.
C20_GapFilledBelowHalf ==
  ListedByMangaPark =>
    LET highest == IF ScrapedNumbers = {} THEN 0 ELSE SetTop(ScrapedNumbers)
    IN /\ GeneratedNumbers =
            IF 2 * Cardinality(ScrapedNumbers) < highest
            THEN (1..highest) \ ScrapedNumbers ELSE {}
       /\ ExtractedNumbers = ScrapedNumbers
       /\ Len(pageRun.chapters) = Cardinality(GeneratedNumbers \cup ExtractedNumbers)

\* scraped chapters {1, 5}: chapters 2, 3 and 4 are returned marked generated
C20_Witness ==
  /\ ListedByMangaPark
  /\ ScrapedNumbers = {1, 5}
  /\ GeneratedNumbers = {2, 3, 4}

\* the records of the returned list, and the records of the page's links
ReturnedRecords == Range(pageRun.chapters)
LinkRecords ==
  { extractedChapter(pageRun.page, k) : k \in 1..Len(pageRun.page.numbers) }

\* C21: in every chapter list MangaPark's getMangaInfo returns, a record is
\* marked generated exactly when its number is not among the scraped ones;
\* every generated record has the date "Unknown" and a whole number between
\* 1 and the highest scraped number; every scraped number keeps a record of
\* one of the page's links, unmarked.
C21_GeneratedExactlyWhenNotScraped ==
  ListedByMangaPark =>
    /\ \A r \in ReturnedRecords :
         /\ r.generated <=> r.number \notin ScrapedNumbers
         /\ r.generated =>
              /\ r.date = "Unknown"
              /\ r.number \in 1..SetTop(ScrapedNumbers)
         /\ ~r.generated => r \in LinkRecords
    /\ \A n \in ScrapedNumbers :
         \E r \in ReturnedRecords : r.number = n /\ ~r.generated

\* a page that lists one chapter twice and leaves a gap below it: the list
\* holds a scraped record and generated ones
C21_Witness ==
  /\ ListedByMangaPark
  /\ Len(pageRun.page.numbers) > Cardinality(ScrapedNumbers)
  /\ \E r \in ReturnedRecords : r.generated
  /\ \E r \in ReturnedRecords : ~r.generated

\* getMangaInfo of MangaPark or MangaBuddy, in either copy of the MangaBuddy
\* adapter, has returned a chapter list
ListedByParkOrBuddy ==
  /\ pageRun.op \in {"getMangaInfo", "getMangaInfoEarlier"}
  /\ provider \in {"mangapark", "mangabuddy"}

SortedDescending(chapters) ==
  \A j \in 1..Len(chapters) : \A k \in j..Len(chapters) :
    chapters[j].number >= chapters[k].number

\* C22 as stated: the chapter list getMangaInfo returns is sorted by chapter
\* number, highest first, for every scraped page, with or without generated
\* chapters (MangaPark and MangaBuddy).
C22_SortedByNumberDescending ==
  ListedByParkOrBuddy => SortedDescending(pageRun.chapters)

\* the positions of the page's links to chapter n
LinksTo(n) ==
  { k \in 1..Len(pageRun.page.numbers) : pageRun.page.numbers[k] = n }

\* C29 as stated: MangaPark's getMangaInfo returns at most one record per
\* chapter number, and where the page lists a number more than once a later
\* link replaces an earlier record whose date is "Unknown": a number with an
\* upload time on some link is returned with a date.
C29_LaterDuplicateReplacesUndated ==
  ListedByMangaPark =>
    /\ \A j \in 1..Len(pageRun.chapters) : \A k \in 1..Len(pageRun.chapters) :
         pageRun.chapters[j].number = pageRun.chapters[k].number => j = k
    /\ \A n \in ScrapedNumbers :
         (\E k \in LinksTo(n) : k \notin pageRun.page.undated) =>
           \A r \in ReturnedRecords : r.number = n => r.date # "Unknown"

\* the method of an adapter that reads the attributes of image elements
AttributeMethod ==
  CASE provider = "mangapark" -> 3
    [] provider = "mangabuddy" -> 2
    [] OTHER -> 1

\* the image elements of the document that carry both data-src and src
ElementsWithBoth ==
  { k \in 1..Len(pageRun.html) :
      /\ pageRun.html[k].kind = "img"
      /\ pageRun.html[k].reader
      /\ pageRun.html[k].value # << >>
      /\ pageRun.html[k].src # << >> }

\* the files of the URLs the call returned, and the files the document's
\* data-src attributes name
EmittedFiles ==
  UNION { Range(pageRun.pages[k].url.parts) : k \in 1..Len(pageRun.pages) }
DataSrcFiles ==
  UNION { Range(pageRun.html[k].value) :
            k \in { j \in 1..Len(pageRun.html) : pageRun.html[j].kind = "img" } }

\* the attribute method alone produced the returned list
AttributeMethodAlone == Returned /\ pageRun.used = {AttributeMethod}

\* C28 as stated: in the attribute method of fetchChapterPages, an image
\* element that carries both data-src and src contributes its data-src value,
\* and its src value is not emitted (MangaBuddy, MangaKakalot, MangaPark).
C28_DataSrcPreferredOverSrc ==
  AttributeMethodAlone =>
    \A k \in ElementsWithBoth :
      /\ Range(pageRun.html[k].value) \subseteq EmittedFiles
      /\ Range(pageRun.html[k].src) \cap EmittedFiles \subseteq DataSrcFiles

\* C30 as stated: within one chapter-listing request no title string is
\* searched more than once on the target site, and the number of searches
\* is at most 1 plus the number of alternates; the request ends in success or
\* failure.
C30_NoTitleSearchedTwice ==
  /\ \A i \in 1..Len(SearchCalls) : \A j \in 1..Len(SearchCalls) :
       SearchCalls[i].arg = SearchCalls[j].arg => i = j
  /\ Len(SearchCalls) <= 1 + Len(animeInfo.synonyms)

\* Every await of an orchestrator returns or throws, so a step that is
\* possible is taken: under this scheduling every request reaches its
\* response (RequestEnds holds of FairSpec).
FairSpec == Spec /\ WF_vars(Next)
RequestEnds == <>(pc = "done")

\* ------------------------------------------------------------------------
\* Properties of concurrent requests
\* ------------------------------------------------------------------------
\* the request that was run again has ended
Replayed == parked.phase = "replay" /\ pc = "done"

\* C27: requests that run at the same time on the same Mapper and adapters,
\* interleaved at every await, do not interfere: each ends as it ends when
\* run alone against the same sites, with the same calls, and no field of the
\* Mapper or of an adapter differs from what its constructor set.
C27_ConcurrentAsAlone ==
  /\ fields = Constructed
  /\ Replayed =>
       /\ outcome = parked.locals.outcome
       /\ response = parked.locals.response
       /\ calls = parked.locals.calls

\* two requests were in flight at the same time, and the one run again
\* answered 200 after a search and a detail fetch
C27_Witness ==
  /\ Replayed
  /\ parked.overlapped
  /\ response.status = 200
  /\ Len(calls) >= 3

\* ------------------------------------------------------------------------
\* Properties of the scorer
\* ------------------------------------------------------------------------
Scored == scoreRun.given /\ scoreRun.similarity # NotApplied
ScoredSwapped == scoreRun.given /\ scoreRun.similaritySwapped # NotApplied
Measured == scoreRun.given /\ scoreRun.distance # NotApplied
MeasuredSwapped == scoreRun.given /\ scoreRun.distanceSwapped # NotApplied

\* C23 as stated: for every string a, the empty string included,
\* similarity(a, a) = 1.0.
C23_SelfSimilarityIsOne ==
  (Scored /\ scoreRun.s1 # Null /\ scoreRun.s1 = scoreRun.s2) =>
    FracEQ(scoreRun.similarity, One)

\* a non-empty string
NonEmpty(s) == s # Null /\ Len(s) > 0

\* C24: for every non-empty string a, similarity(a, "") = 0 and
\* similarity("", a) = 0, and so it is when the other argument is null or
\* undefined.
C24_EmptyOrAbsentScoresZero ==
  /\ (Scored /\ NonEmpty(scoreRun.s1) /\ scoreRun.s2 \in {<< >>, Null}) =>
       scoreRun.similarity = Zero
  /\ (ScoredSwapped /\ NonEmpty(scoreRun.s1) /\ scoreRun.s2 \in {<< >>, Null}) =>
       scoreRun.similaritySwapped = Zero

\* the scorer was given a non-empty string and null, in both orders
C24_Witness ==
  /\ Scored
  /\ ScoredSwapped
  /\ NonEmpty(scoreRun.s1)
  /\ scoreRun.s2 = Null

RECURSIVE Levenshtein(_, _)
\* the classic distance: the fewest insertions, deletions and substitutions
\* of one character that turn a into b
Levenshtein(a, b) ==
  IF Len(a) = 0 THEN Len(b)
  ELSE IF Len(b) = 0 THEN Len(a)
  ELSE SetMin({ Levenshtein(Tail(a), b) + 1,
                Levenshtein(a, Tail(b)) + 1,
                Levenshtein(Tail(a), Tail(b))
                  + (IF Head(a) = Head(b) THEN 0 ELSE 1) })

====
